---------------------------- MODULE Spec2Model ----------------------------
(***************************************************************************)
(* Consent-gated sharing of encrypted records with proxy re-encryption.    *)
(* A model of MockBlockchain (mock_blockchain.py), CryptoManager           *)
(* (crypto_utils.py), IPFSManager (ipfs_manager.py) and PhaseSimulator     *)
(* (phase_simulator.py).                                                   *)
(*                                                                         *)
(* Byte strings, keys, capsules and fragments are symbolic records with a  *)
(* "kind" field.  SHA-256 and content identifiers are injective symbolic   *)
(* functions of the bytes.  The umbral primitives follow the PRE contract: *)
(* a capsule is bound to the public key it was made for and to the         *)
(* randomness of its encryption; a fragment is bound to the capsule it was *)
(* derived from and to the delegating, signing and receiving keys.         *)
(***************************************************************************)
EXTENDS Naturals, Sequences, FiniteSets, TLC

VARIABLES
    blockchain,       \* PhaseSimulator.blockchain: users, records, consents, audit_log
    keys_dir,         \* CryptoManager.keys_dir: user_id -> key files
    capsule_storage,  \* PhaseSimulator.capsule_storage
    ipfs,             \* the content store behind IPFSManager: cid -> bytes
    keygen_count,     \* number of SecretKey.random() draws so far
    issued,           \* results of phase2_data_encryption held by the caller
    run,              \* SimulationRunner.run_full_simulation: its position and locals
    last,             \* the most recent call and what it returned or raised
    threads           \* callers inside MockBlockchain or phase7: their position and locals

vars == <<blockchain, keys_dir, capsule_storage, ipfs, keygen_count, issued, run, last, threads>>

----------------------------------------------------------------------------
(* Bounds of the model *)

MaxAudit == 6

----------------------------------------------------------------------------
(* Inputs *)

Users == {"p", "v"}
Records == {"r"}
Role == {"Patient", "Doctor", "Viewer"}
Hello == [kind |-> "raw", v |-> "hello world", size |-> 11]
Payloads == {Hello, [kind |-> "raw", v |-> "x", size |-> 1]}

\* Python None
NoneV == [kind |-> "None"]
\* A falsy record_id argument (None or "")
NoRecordId == ""

EmptyMap == [x \in {} |-> NoneV]
Put(f, k, v) == [x \in DOMAIN f \cup {k} |-> IF x = k THEN v ELSE f[x]]
Range(f) == {f[x] : x \in DOMAIN f}

----------------------------------------------------------------------------
(* hashlib.sha256 and the content identifier of the store *)

compute_hash(data) == [kind |-> "sha256", of |-> data]
content_id(data) == [kind |-> "cid", of |-> data]

----------------------------------------------------------------------------
(* umbral: keys, capsules, fragments *)

SecretKey(n) == [kind |-> "SecretKey", id |-> n]
public_key(sk) == [kind |-> "PublicKey", id |-> sk.id]

\* pre.encrypt(pk, data) with encapsulation randomness n
pre_encrypt(pk, data, n) ==
    [capsule |-> [kind |-> "Capsule", pk |-> pk, n |-> n],
     ciphertext |-> [kind |-> "ciphertext", key |-> [pk |-> pk, n |-> n], data |-> data]]

\* bytes(capsule), Capsule.from_bytes
capsule_to_bytes(c) == [kind |-> "capsule_bytes", pk |-> c.pk, n |-> c.n]
Capsule_from_bytes(b) ==
    IF b.kind = "capsule_bytes"
    THEN [err |-> "ok", obj |-> [kind |-> "Capsule", pk |-> b.pk, n |-> b.n]]
    ELSE [err |-> "DeserializeError", obj |-> NoneV]

\* bytes(cfrag), CapsuleFrag.from_bytes
cfrag_to_bytes(f) ==
    [kind |-> "cfrag_bytes", capsule |-> f.capsule, delegating |-> f.delegating,
     signer |-> f.signer, receiving |-> f.receiving]
CapsuleFrag_from_bytes(b) ==
    IF b.kind = "cfrag_bytes"
    THEN [err |-> "ok",
          obj |-> [kind |-> "CapsuleFrag", capsule |-> b.capsule, delegating |-> b.delegating,
                   signer |-> b.signer, receiving |-> b.receiving]]
    ELSE [err |-> "DeserializeError", obj |-> NoneV]

\* pre.generate_kfrags(delegating_sk, signer, receiving_pk, threshold=1, shares=1)
pre_generate_kfrags(delegating_sk, signer_sk, receiving_pk) ==
    <<[kind |-> "KeyFrag", delegating |-> public_key(delegating_sk),
       signer |-> public_key(signer_sk), receiving |-> receiving_pk]>>

\* pre.reencrypt(kfrag, capsule)
pre_reencrypt(kfrag, capsule) ==
    [kind |-> "CapsuleFrag", capsule |-> capsule, delegating |-> kfrag.delegating,
     signer |-> kfrag.signer, receiving |-> kfrag.receiving]

\* A verification that accepts every fragment
cfrag_verify_accepts_all(cfrag, capsule, verifying_pk, delegating_pk, receiving_pk) == TRUE

\* A verification that checks the three keys but not the capsule
cfrag_verify_ignores_capsule(cfrag, capsule, verifying_pk, delegating_pk, receiving_pk) ==
    /\ cfrag.signer = verifying_pk
    /\ cfrag.delegating = delegating_pk
    /\ cfrag.receiving = receiving_pk

\* cfrag.verify(capsule, verifying_pk, delegating_pk, receiving_pk)
cfrag_verify(cfrag, capsule, verifying_pk, delegating_pk, receiving_pk) ==
    /\ cfrag.capsule = capsule
    /\ cfrag.signer = verifying_pk
    /\ cfrag.delegating = delegating_pk
    /\ cfrag.receiving = receiving_pk

\* The symmetric key the holder of sk opens from a capsule
open_original(sk, capsule) == [pk |-> public_key(sk), n |-> capsule.n]

\* The symmetric key the holder of receiving_sk opens from a capsule and one fragment
open_reencrypted(receiving_sk, delegating_pk, capsule, cfrag) ==
    IF /\ cfrag.capsule = capsule
       /\ cfrag.delegating = delegating_pk
       /\ cfrag.receiving = public_key(receiving_sk)
    THEN [pk |-> delegating_pk, n |-> capsule.n]
    ELSE [pk |-> NoneV, n |-> capsule.n]

\* The authenticated decryption of the ciphertext under a symmetric key
dem_decrypt(key, ciphertext) ==
    IF ciphertext.kind = "ciphertext" /\ ciphertext.key = key
    THEN [err |-> "ok", plaintext |-> ciphertext.data]
    ELSE [err |-> "DecryptionError", plaintext |-> NoneV]

\* pre.decrypt_original(sk, capsule, ciphertext)
pre_decrypt_original(sk, capsule, ciphertext) ==
    dem_decrypt(open_original(sk, capsule), ciphertext)

\* pre.decrypt_reencrypted(receiving_sk, delegating_pk, capsule, [verified_cfrag], ciphertext)
pre_decrypt_reencrypted(receiving_sk, delegating_pk, capsule, cfrag, ciphertext) ==
    dem_decrypt(open_reencrypted(receiving_sk, delegating_pk, capsule, cfrag), ciphertext)

----------------------------------------------------------------------------
(* CryptoManager (crypto_utils.py) *)

secret_key_to_bytes(sk) == [kind |-> "secret_key_bytes", id |-> sk.id]
SecretKey_from_bytes(b) == [kind |-> "SecretKey", id |-> b.id]
\* A serialization that writes out the secret scalar behind the key
public_key_to_secret_bytes(pk) == [kind |-> "secret_key_bytes", id |-> pk.id]
public_key_to_bytes(pk) == [kind |-> "public_key_bytes", id |-> pk.id]
PublicKey_from_bytes(b) == [kind |-> "PublicKey", id |-> b.id]

\* CryptoManager.generate_keypair: draws a fresh secret key and (over)writes
\* both key files of user_id
generate_keypair(kd, count, user_id) ==
    LET priv_key == SecretKey(count + 1)
        pub_key == public_key(priv_key)
    IN [keys_dir |-> Put(kd, user_id,
                         [private_key |-> secret_key_to_bytes(priv_key),
                          public_key |-> public_key_to_bytes(pub_key)]),
        priv_key |-> priv_key,
        pub_key |-> pub_key]

load_public_key(kd, user_id) ==
    IF user_id \notin DOMAIN kd
    THEN [err |-> "FileNotFoundError", key |-> NoneV]
    ELSE [err |-> "ok", key |-> PublicKey_from_bytes(kd[user_id].public_key)]

load_private_key(kd, user_id) ==
    IF user_id \notin DOMAIN kd
    THEN [err |-> "FileNotFoundError", key |-> NoneV]
    ELSE [err |-> "ok", key |-> SecretKey_from_bytes(kd[user_id].private_key)]

\* An encryption that returns the capsule of another encapsulation
encrypt_other_capsule(data, recipient_public_key, n) ==
    [ciphertext |-> pre_encrypt(recipient_public_key, data, n).ciphertext,
     capsule |-> capsule_to_bytes(pre_encrypt(recipient_public_key, data, n + 1).capsule)]

\* CryptoManager.encrypt(data, recipient_public_key) -> (ciphertext, bytes(capsule))
encrypt(data, recipient_public_key, n) ==
    LET e == pre_encrypt(recipient_public_key, data, n)
    IN [ciphertext |-> e.ciphertext, capsule |-> capsule_to_bytes(e.capsule)]

\* A re-encryption key that delegates to the owner instead of the viewer
generate_reencryption_key_to_owner(owner_private_key, viewer_public_key) ==
    pre_generate_kfrags(owner_private_key, owner_private_key, public_key(owner_private_key))

\* CryptoManager.generate_reencryption_key: the owner's key is also the signer
generate_reencryption_key(owner_private_key, viewer_public_key) ==
    pre_generate_kfrags(owner_private_key, owner_private_key, viewer_public_key)

\* A re-encryption that hands back the capsule it was given
reencrypt_returns_capsule(capsule_bytes, kfrags) == [err |-> "ok", cfrag |-> capsule_bytes]

\* CryptoManager.reencrypt(capsule_bytes, kfrags) -> bytes(cfrag)
reencrypt(capsule_bytes, kfrags) ==
    LET capsule == Capsule_from_bytes(capsule_bytes)
    IN IF capsule.err # "ok"
       THEN [err |-> capsule.err, cfrag |-> NoneV]
       ELSE [err |-> "ok", cfrag |-> cfrag_to_bytes(pre_reencrypt(kfrags[1], capsule.obj))]

\* CryptoManager.decrypt(ciphertext, capsule_bytes, private_key): the owner's path
decrypt(ciphertext, capsule_bytes, private_key) ==
    LET capsule == Capsule_from_bytes(capsule_bytes)
    IN IF capsule.err # "ok"
       THEN [err |-> capsule.err, plaintext |-> NoneV]
       ELSE pre_decrypt_original(private_key, capsule.obj, ciphertext)

\* One entry of the trace of primitive calls made by decrypt_with_cfrag
VerifyCall(cfrag, capsule, verifying_pk, delegating_pk, receiving_pk, ok) ==
    [fn |-> "cfrag.verify", cfrag |-> cfrag, capsule |-> capsule,
     verifying_pk |-> verifying_pk, delegating_pk |-> delegating_pk,
     receiving_pk |-> receiving_pk, ok |-> ok]
DecryptCall(cfrag, capsule) ==
    [fn |-> "pre.decrypt_reencrypted", cfrag |-> cfrag, capsule |-> capsule]

\* CryptoManager.decrypt_with_cfrag(ciphertext, original_capsule_bytes, cfrag_bytes,
\*                                  viewer_private_key, owner_public_key)
decrypt_with_cfrag(ciphertext, original_capsule_bytes, cfrag_bytes, viewer_private_key, owner_public_key) ==
    LET capsule == Capsule_from_bytes(original_capsule_bytes)
        cfrag == CapsuleFrag_from_bytes(cfrag_bytes)
        viewer_public_key == public_key(viewer_private_key)
    IN IF capsule.err # "ok"
       THEN [err |-> capsule.err, plaintext |-> NoneV, calls |-> <<>>]
       ELSE IF cfrag.err # "ok"
       THEN [err |-> cfrag.err, plaintext |-> NoneV, calls |-> <<>>]
       ELSE LET verified == cfrag_verify(cfrag.obj, capsule.obj, owner_public_key,
                                         owner_public_key, viewer_public_key)
                v == VerifyCall(cfrag.obj, capsule.obj, owner_public_key,
                                owner_public_key, viewer_public_key, verified)
            IN IF ~verified
               THEN [err |-> "VerificationError", plaintext |-> NoneV, calls |-> <<v>>]
               ELSE LET d == pre_decrypt_reencrypted(viewer_private_key, owner_public_key,
                                                     capsule.obj, cfrag.obj, ciphertext)
                    IN [err |-> d.err, plaintext |-> d.plaintext,
                        calls |-> <<v, DecryptCall(cfrag.obj, capsule.obj)>>]

----------------------------------------------------------------------------
(* MockBlockchain (mock_blockchain.py) *)

\* MockBlockchain.reset
MockBlockchain ==
    [users |-> EmptyMap, records |-> EmptyMap, consents |-> EmptyMap, audit_log |-> <<>>]

\* time.time(): a logical clock, the number of state changes made so far
time_time(bc) == Len(bc.audit_log)

\* An audit trail that records every operation twice
log_audit_twice(bc, action, details) ==
    [bc EXCEPT !.audit_log = @ \o <<[action |-> action, details |-> details],
                                    [action |-> action, details |-> details]>>]

\* MockBlockchain._log_audit
log_audit(bc, action, details) ==
    [bc EXCEPT !.audit_log =
        Append(@, [timestamp |-> time_time(bc), action |-> action, details |-> details])]

\* A registration that writes over an existing principal
register_user_overwrites(bc, user_id, role, pk_bytes) ==
    [bc |-> log_audit(
               [bc EXCEPT !.users = Put(@, user_id,
                   [user_id |-> user_id, role |-> role, public_key |-> pk_bytes,
                    registered_at |-> time_time(bc)])],
               "registration", [user_id |-> user_id, role |-> role]),
     err |-> "ok"]

\* A registration that is refused as soon as any principal is registered
register_user_single(bc, user_id, role, pk_bytes) ==
    IF DOMAIN bc.users # {}
    THEN [bc |-> bc, err |-> "UserAlreadyRegistered"]
    ELSE [bc |-> log_audit(
                    [bc EXCEPT !.users = Put(@, user_id,
                        [user_id |-> user_id, role |-> role, public_key |-> pk_bytes,
                         registered_at |-> time_time(bc)])],
                    "registration", [user_id |-> user_id, role |-> role]),
          err |-> "ok"]

\* MockBlockchain.register_user
register_user(bc, user_id, role, pk_bytes) ==
    IF user_id \in DOMAIN bc.users
    THEN [bc |-> bc, err |-> "UserAlreadyRegistered"]
    ELSE [bc |-> log_audit(
                    [bc EXCEPT !.users = Put(@, user_id,
                        [user_id |-> user_id, role |-> role, public_key |-> pk_bytes,
                         registered_at |-> time_time(bc)])],
                    "registration", [user_id |-> user_id, role |-> role]),
          err |-> "ok"]

\* A store that writes over an existing record
store_record_overwrites(bc, record_id, owner_vid, uploader_vid, cid, file_hash) ==
    [bc |-> log_audit(
               [bc EXCEPT !.records = Put(@, record_id,
                   [record_id |-> record_id, owner_vid |-> owner_vid,
                    uploader_vid |-> uploader_vid, cid |-> cid, hash |-> file_hash,
                    stored_at |-> time_time(bc)])],
               "store_record",
               [record_id |-> record_id, owner_vid |-> owner_vid,
                uploader_vid |-> uploader_vid, cid |-> cid]),
     err |-> "ok"]

\* MockBlockchain.store_record
store_record(bc, record_id, owner_vid, uploader_vid, cid, file_hash) ==
    IF record_id \in DOMAIN bc.records
    THEN [bc |-> bc, err |-> "RecordAlreadyExists"]
    ELSE [bc |-> log_audit(
                    [bc EXCEPT !.records = Put(@, record_id,
                        [record_id |-> record_id, owner_vid |-> owner_vid,
                         uploader_vid |-> uploader_vid, cid |-> cid, hash |-> file_hash,
                         stored_at |-> time_time(bc)])],
                    "store_record",
                    [record_id |-> record_id, owner_vid |-> owner_vid,
                     uploader_vid |-> uploader_vid, cid |-> cid]),
          err |-> "ok"]

\* MockBlockchain.get_record
get_record(bc, record_id) ==
    IF record_id \in DOMAIN bc.records THEN bc.records[record_id] ELSE NoneV

\* consent_key = f"{owner_vid}:{viewer_vid}:{record_id}"
consent_key(owner_vid, viewer_vid, record_id) ==
    owner_vid \o ":" \o viewer_vid \o ":" \o record_id

\* A request that does not look for an existing entry and writes over it
request_access_overwrites(bc, owner_vid, viewer_vid, record_id) ==
    LET key == consent_key(owner_vid, viewer_vid, record_id)
    IN [bc |-> log_audit(
                  [bc EXCEPT !.consents = Put(@, key,
                      [owner_vid |-> owner_vid, viewer_vid |-> viewer_vid,
                       record_id |-> record_id, status |-> "requested",
                       capsule_cid |-> NoneV, capsule_hash |-> NoneV,
                       created_at |-> time_time(bc), updated_at |-> time_time(bc)])],
                  "request_access",
                  [owner_vid |-> owner_vid, viewer_vid |-> viewer_vid,
                   record_id |-> record_id]),
        err |-> "ok"]

\* MockBlockchain.request_access
request_access(bc, owner_vid, viewer_vid, record_id) ==
    LET key == consent_key(owner_vid, viewer_vid, record_id)
    IN IF key \in DOMAIN bc.consents
       THEN [bc |-> bc, err |-> "ConsentAlreadyExists"]
       ELSE [bc |-> log_audit(
                       [bc EXCEPT !.consents = Put(@, key,
                           [owner_vid |-> owner_vid, viewer_vid |-> viewer_vid,
                            record_id |-> record_id, status |-> "requested",
                            capsule_cid |-> NoneV, capsule_hash |-> NoneV,
                            created_at |-> time_time(bc), updated_at |-> time_time(bc)])],
                       "request_access",
                       [owner_vid |-> owner_vid, viewer_vid |-> viewer_vid,
                        record_id |-> record_id]),
             err |-> "ok"]

\* An approval that creates the entry when the triple has none
approve_access_creates(bc, owner_vid, viewer_vid, record_id, capsule_cid, capsule_hash) ==
    LET key == consent_key(owner_vid, viewer_vid, record_id)
    IN [bc |-> log_audit(
                  [bc EXCEPT !.consents = Put(@, key,
                      [owner_vid |-> owner_vid, viewer_vid |-> viewer_vid,
                       record_id |-> record_id, status |-> "approved",
                       capsule_cid |-> capsule_cid, capsule_hash |-> capsule_hash,
                       created_at |-> time_time(bc), updated_at |-> time_time(bc)])],
                  "approve_access",
                  [owner_vid |-> owner_vid, viewer_vid |-> viewer_vid,
                   record_id |-> record_id, capsule_cid |-> capsule_cid]),
        err |-> "ok"]

\* An approval that records the status and drops the fragment reference
approve_access_status_only(bc, owner_vid, viewer_vid, record_id, capsule_cid, capsule_hash) ==
    LET key == consent_key(owner_vid, viewer_vid, record_id)
    IN IF key \notin DOMAIN bc.consents
       THEN [bc |-> bc, err |-> "ConsentNotFound"]
       ELSE [bc |-> log_audit(
                       [bc EXCEPT !.consents[key].status = "approved",
                                  !.consents[key].updated_at = time_time(bc)],
                       "approve_access",
                       [owner_vid |-> owner_vid, viewer_vid |-> viewer_vid,
                        record_id |-> record_id, capsule_cid |-> capsule_cid]),
             err |-> "ok"]

\* An approval that keeps the fragment reference of an entry already approved
approve_access_keeps_first(bc, owner_vid, viewer_vid, record_id, capsule_cid, capsule_hash) ==
    LET key == consent_key(owner_vid, viewer_vid, record_id)
    IN IF key \notin DOMAIN bc.consents
       THEN [bc |-> bc, err |-> "ConsentNotFound"]
       ELSE LET kept == bc.consents[key].status = "approved"
            IN [bc |-> log_audit(
                       [bc EXCEPT !.consents[key].status = "approved",
                                  !.consents[key].capsule_cid =
                                      IF kept THEN @ ELSE capsule_cid,
                                  !.consents[key].capsule_hash =
                                      IF kept THEN @ ELSE capsule_hash,
                                  !.consents[key].updated_at = time_time(bc)],
                       "approve_access",
                       [owner_vid |-> owner_vid, viewer_vid |-> viewer_vid,
                        record_id |-> record_id, capsule_cid |-> capsule_cid]),
                err |-> "ok"]

\* MockBlockchain.approve_access
approve_access(bc, owner_vid, viewer_vid, record_id, capsule_cid, capsule_hash) ==
    LET key == consent_key(owner_vid, viewer_vid, record_id)
    IN IF key \notin DOMAIN bc.consents
       THEN [bc |-> bc, err |-> "ConsentNotFound"]
       ELSE [bc |-> log_audit(
                       [bc EXCEPT !.consents[key].status = "approved",
                                  !.consents[key].capsule_cid = capsule_cid,
                                  !.consents[key].capsule_hash = capsule_hash,
                                  !.consents[key].updated_at = time_time(bc)],
                       "approve_access",
                       [owner_vid |-> owner_vid, viewer_vid |-> viewer_vid,
                        record_id |-> record_id, capsule_cid |-> capsule_cid]),
             err |-> "ok"]

\* A revocation that leaves the fragment locator and hash in the entry
revoke_access_keeps_fragment(bc, owner_vid, viewer_vid, record_id) ==
    LET key == consent_key(owner_vid, viewer_vid, record_id)
    IN IF key \notin DOMAIN bc.consents
       THEN [bc |-> bc, err |-> "ConsentNotFound"]
       ELSE [bc |-> log_audit(
                       [bc EXCEPT !.consents[key].status = "revoked",
                                  !.consents[key].updated_at = time_time(bc)],
                       "revoke_access",
                       [owner_vid |-> owner_vid, viewer_vid |-> viewer_vid,
                        record_id |-> record_id]),
             err |-> "ok"]

\* A revocation that raises on an entry that is already revoked
revoke_access_once(bc, owner_vid, viewer_vid, record_id) ==
    LET key == consent_key(owner_vid, viewer_vid, record_id)
    IN IF key \notin DOMAIN bc.consents
       THEN [bc |-> bc, err |-> "ConsentNotFound"]
       ELSE IF bc.consents[key].status = "revoked"
       THEN [bc |-> bc, err |-> "AlreadyRevoked"]
       ELSE [bc |-> log_audit(
                       [bc EXCEPT !.consents[key].status = "revoked",
                                  !.consents[key].capsule_cid = NoneV,
                                  !.consents[key].capsule_hash = NoneV,
                                  !.consents[key].updated_at = time_time(bc)],
                       "revoke_access",
                       [owner_vid |-> owner_vid, viewer_vid |-> viewer_vid,
                        record_id |-> record_id]),
             err |-> "ok"]

\* MockBlockchain.revoke_access
revoke_access(bc, owner_vid, viewer_vid, record_id) ==
    LET key == consent_key(owner_vid, viewer_vid, record_id)
    IN IF key \notin DOMAIN bc.consents
       THEN [bc |-> bc, err |-> "ConsentNotFound"]
       ELSE [bc |-> log_audit(
                       [bc EXCEPT !.consents[key].status = "revoked",
                                  !.consents[key].capsule_cid = NoneV,
                                  !.consents[key].capsule_hash = NoneV,
                                  !.consents[key].updated_at = time_time(bc)],
                       "revoke_access",
                       [owner_vid |-> owner_vid, viewer_vid |-> viewer_vid,
                        record_id |-> record_id]),
             err |-> "ok"]

\* MockBlockchain.get_consent
get_consent(bc, owner_vid, viewer_vid, record_id) ==
    LET key == consent_key(owner_vid, viewer_vid, record_id)
    IN IF key \in DOMAIN bc.consents THEN bc.consents[key] ELSE NoneV

\* A lookup that appends an audit entry
after_get_consent_logged(bc, owner_vid, viewer_vid, record_id) ==
    log_audit(bc, "get_consent",
              [owner_vid |-> owner_vid, viewer_vid |-> viewer_vid, record_id |-> record_id])

\* The registries after MockBlockchain.get_consent: self.consents.get(consent_key)
\* assigns nothing and does not call _log_audit
after_get_consent(bc, owner_vid, viewer_vid, record_id) == bc

\* The registries after MockBlockchain.get_record: self.records.get(record_id)
after_get_record(bc, record_id) == bc

----------------------------------------------------------------------------
(* IPFSManager (ipfs_manager.py) over a content-addressed store *)

\* IPFSManager.upload: client.add_bytes(data) returns the content identifier, or
\* raises when the daemon does not answer; answered is the number of add_bytes
\* calls the daemon still answers
ipfs_upload(store, data, answered) ==
    IF answered > 0
    THEN [store |-> Put(store, content_id(data), data), cid |-> content_id(data), err |-> "ok"]
    ELSE [store |-> store, cid |-> NoneV, err |-> "Unavailable"]

\* The store holds under every locator the bytes that were uploaded
Honest(store) == \A c \in DOMAIN store : store[c] = c.of

\* IPFSManager.download: client.cat(cid)
ipfs_download(store, cid) ==
    IF cid \in DOMAIN store
    THEN [err |-> "ok", data |-> store[cid]]
    ELSE [err |-> "IPFSError", data |-> NoneV]

----------------------------------------------------------------------------
(* PhaseSimulator (phase_simulator.py) *)

\* PhaseSimulator.phase1_user_registration: the key pair is generated and
\* written before register_user is tried
phase1_user_registration(bc, kd, count, user_id, role) ==
    LET g == generate_keypair(kd, count, user_id)
        r == register_user(bc, user_id, role, public_key_to_bytes(g.pub_key))
    IN [blockchain |-> r.bc, keys_dir |-> g.keys_dir, err |-> r.err]

\* PhaseSimulator.phase2_data_encryption
phase2_data_encryption(kd, caps, n, data, patient_id, record_id) ==
    LET patient_pub_key == load_public_key(kd, patient_id)
    IN IF patient_pub_key.err # "ok"
       THEN [capsule_storage |-> caps, err |-> patient_pub_key.err, ret |-> NoneV]
       ELSE LET e == encrypt(data, patient_pub_key.key, n)
                storage_key == IF record_id # NoRecordId THEN record_id ELSE patient_id
            IN [capsule_storage |-> Put(caps, storage_key, e.capsule),
                err |-> "ok",
                ret |-> [ciphertext |-> e.ciphertext, capsule |-> e.capsule,
                         cipher_hash |-> compute_hash(e.ciphertext), data |-> data]]

UploadCall(data, kind, u) ==
    [fn |-> "ipfs.upload", data |-> data, content_kind |-> kind, err |-> u.err]
DownloadCall(cid, d) == [fn |-> "ipfs.download", cid |-> cid, err |-> d.err, data |-> d.data]

\* PhaseSimulator.phase3_ipfs_storage: uploads the original data, then the ciphertext
phase3_ipfs_storage(store, ciphertext, original_data, answered) ==
    LET u1 == ipfs_upload(store, original_data, answered)
        u2 == ipfs_upload(u1.store, ciphertext, answered - 1)
        c1 == <<UploadCall(original_data, "original", u1)>>
        c2 == Append(c1, UploadCall(ciphertext, "encrypted", u2))
    IN IF u1.err # "ok"
       THEN [ipfs |-> u1.store, err |-> u1.err, calls |-> c1, ret |-> NoneV]
       ELSE IF u2.err # "ok"
       THEN [ipfs |-> u2.store, err |-> u2.err, calls |-> c2, ret |-> NoneV]
       ELSE [ipfs |-> u2.store, err |-> "ok", calls |-> c2,
             ret |-> [original_cid |-> u1.cid, encrypted_cid |-> u2.cid]]

\* PhaseSimulator.phase4_onchain_storage
phase4_onchain_storage(bc, record_id, owner_vid, uploader_vid, cid, cipher_hash) ==
    store_record(bc, record_id, owner_vid, uploader_vid, cid, cipher_hash)

\* PhaseSimulator.phase5_access_request
phase5_access_request(bc, owner_vid, viewer_vid, record_id) ==
    request_access(bc, owner_vid, viewer_vid, record_id)

\* capsule_storage.get(record_id)
capsule_storage_get(caps, record_id) ==
    IF record_id \in DOMAIN caps THEN caps[record_id] ELSE NoneV

\* A phase 6 that goes on to approve_access although the upload did not return
upload_ignored(up) == FALSE

\* An exception of self.ipfs.upload leaves phase6_consent_approval_pre at once
upload_raised(up) == up.err # "ok"

Phase6Fail(bc, store, err, calls) ==
    [blockchain |-> bc, ipfs |-> store, err |-> err, calls |-> calls, ret |-> NoneV]

\* PhaseSimulator.phase6_consent_approval_pre
phase6_consent_approval_pre(bc, kd, caps, store, owner_vid, viewer_vid, record_id, original_capsule, answered) ==
    LET capsule == IF original_capsule = NoneV
                   THEN capsule_storage_get(caps, record_id)
                   ELSE original_capsule
        owner_priv_key == load_private_key(kd, owner_vid)
        viewer_pub_key == load_public_key(kd, viewer_vid)
    IN IF capsule = NoneV
       THEN Phase6Fail(bc, store, "CapsuleNotFound", <<>>)
       ELSE IF owner_priv_key.err # "ok"
       THEN Phase6Fail(bc, store, owner_priv_key.err, <<>>)
       ELSE IF viewer_pub_key.err # "ok"
       THEN Phase6Fail(bc, store, viewer_pub_key.err, <<>>)
       ELSE LET kfrags == generate_reencryption_key(owner_priv_key.key, viewer_pub_key.key)
                c1 == <<[fn |-> "generate_reencryption_key"]>>
                transformed == reencrypt(capsule, kfrags)
            IN IF transformed.err # "ok"
               THEN Phase6Fail(bc, store, transformed.err, c1)
               ELSE LET c2 == Append(c1, [fn |-> "reencrypt", cfrag |-> transformed.cfrag])
                        up == ipfs_upload(store, transformed.cfrag, answered)
                        c3 == Append(c2, UploadCall(transformed.cfrag, "capsule", up))
                        capsule_hash == compute_hash(transformed.cfrag)
                        a == approve_access(bc, owner_vid, viewer_vid, record_id,
                                            up.cid, capsule_hash)
                    IN IF upload_raised(up)
                       THEN Phase6Fail(bc, up.store, up.err, c3)
                       ELSE [blockchain |-> a.bc, ipfs |-> up.store, err |-> a.err,
                             calls |-> c3,
                             ret |-> IF a.err = "ok"
                                     THEN [capsule_cid |-> up.cid,
                                           capsule_hash |-> capsule_hash,
                                           cfrag |-> transformed.cfrag]
                                     ELSE NoneV]

\* A retrieval that accepts any existing consent entry, whatever its status
consent_exists(consent) == consent # NoneV

\* "if not consent or consent.status != 'approved': raise"
consent_approved(consent) == consent # NoneV /\ consent.status = "approved"

\* A retrieval that skips the comparison with the record's stored hash
ciphertext_hash_unchecked(ciphertext, record) == TRUE

\* "if cipher_hash != record.hash: raise"
ciphertext_hash_ok(ciphertext, record) == compute_hash(ciphertext) = record.hash

\* A retrieval that skips the comparison with the consent's fragment hash
capsule_hash_unchecked(cfrag_data, consent) == TRUE

\* "if capsule_hash != consent.capsule_hash: raise"
capsule_hash_ok(cfrag_data, consent) == compute_hash(cfrag_data) = consent.capsule_hash

Phase7Fail(err, calls) == [err |-> err, calls |-> calls, plaintext |-> NoneV, ret |-> NoneV]

\* PhaseSimulator.phase7_data_retrieval_decryption
phase7_data_retrieval_decryption(bc, kd, caps, store, viewer_vid, record_id, owner_vid, original_capsule) ==
    LET consent == get_consent(bc, owner_vid, viewer_vid, record_id)
        record == get_record(bc, record_id)
    IN IF ~consent_approved(consent)
       THEN Phase7Fail("ConsentNotApproved", <<>>)
       ELSE IF record = NoneV
       THEN Phase7Fail("RecordNotFound", <<>>)
       ELSE LET d1 == ipfs_download(store, record.cid)
                c1 == <<DownloadCall(record.cid, d1)>>
            IN IF d1.err # "ok"
               THEN Phase7Fail(d1.err, c1)
               ELSE LET d2 == ipfs_download(store, consent.capsule_cid)
                        c2 == Append(c1, DownloadCall(consent.capsule_cid, d2))
                        ciphertext == d1.data
                        cfrag_data == d2.data
                        capsule == IF original_capsule = NoneV
                                   THEN capsule_storage_get(caps, record_id)
                                   ELSE original_capsule
                        viewer_priv_key == load_private_key(kd, viewer_vid)
                        owner_pub_key == load_public_key(kd, owner_vid)
                    IN IF d2.err # "ok"
                       THEN Phase7Fail(d2.err, c2)
                       ELSE IF ~ciphertext_hash_ok(ciphertext, record)
                       THEN Phase7Fail("CiphertextHashMismatch", c2)
                       ELSE IF ~capsule_hash_ok(cfrag_data, consent)
                       THEN Phase7Fail("CapsuleHashMismatch", c2)
                       ELSE IF capsule = NoneV
                       THEN Phase7Fail("CapsuleNotFound", c2)
                       ELSE IF viewer_priv_key.err # "ok"
                       THEN Phase7Fail(viewer_priv_key.err, c2)
                       ELSE IF owner_pub_key.err # "ok"
                       THEN Phase7Fail(owner_pub_key.err, c2)
                       ELSE LET d == decrypt_with_cfrag(ciphertext, capsule, cfrag_data,
                                                        viewer_priv_key.key, owner_pub_key.key)
                                c3 == Append(c2, [fn |-> "decrypt_with_cfrag"]) \o d.calls
                            IN IF d.err # "ok"
                               THEN Phase7Fail(d.err, c3)
                               ELSE [err |-> "ok", calls |-> c3, plaintext |-> d.plaintext,
                                     ret |-> [viewer_vid |-> viewer_vid,
                                              record_id |-> record_id,
                                              plaintext_size_bytes |-> d.plaintext.size]]

\* PhaseSimulator.phase8_access_revocation
phase8_access_revocation(bc, owner_vid, viewer_vid, record_id) ==
    revoke_access(bc, owner_vid, viewer_vid, record_id)

----------------------------------------------------------------------------
(* The simulator as a state machine: one action per public operation *)

Called(op, args, err, calls, plaintext, ret) ==
    [op |-> op, args |-> args, err |-> err, calls |-> calls,
     plaintext |-> plaintext, ret |-> ret]

TripleArgs(owner_vid, viewer_vid, record_id, original_capsule) ==
    [owner_vid |-> owner_vid, viewer_vid |-> viewer_vid, record_id |-> record_id,
     original_capsule |-> original_capsule]

\* The audit log stays within the bound of the model
Within(bc) == Len(bc.audit_log) <= MaxAudit

\* Capsules and ciphertexts the caller holds from earlier phase2 results
HeldCapsules == {issued[i].capsule : i \in 1..Len(issued)}
HeldCiphertexts == {issued[i].ciphertext : i \in 1..Len(issued)}

\* The locators the registries refer to
Referenced(bc) ==
    {bc.records[r].cid : r \in DOMAIN bc.records} \cup
    {bc.consents[k].capsule_cid : k \in DOMAIN bc.consents}

\* What an untrusted store may serve to one retrieval: the stored bytes, or,
\* under one locator that the registries refer to, another stored ciphertext or
\* fragment or bytes that are neither
Junk == [kind |-> "junk"]
Served(store, bc) ==
    {store} \cup
    {[store EXCEPT ![c] = d] : c \in DOMAIN store \cap Referenced(bc),
                               d \in ({x \in Range(store) : x.kind # "raw"} \cup {Junk})}

\* The callers that may call into one simulator at the same time
Threads == {"T1", "T2"}
\* A caller that has made no call; local holds the local variables of its call
IdleThread == [pc |-> "idle", op |-> "none", args |-> NoneV, local |-> NoneV,
               err |-> "ok", plaintext |-> NoneV]

\* No run_full_simulation call is in progress
Idle == [pc |-> "idle", count |-> 0]

Init ==
    /\ blockchain = MockBlockchain
    /\ keys_dir = EmptyMap
    /\ capsule_storage = EmptyMap
    /\ ipfs = EmptyMap
    /\ keygen_count = 0
    /\ issued = <<>>
    /\ run = Idle
    /\ threads = [t \in Threads |-> IdleThread]
    /\ last = Called("reset", NoneV, "ok", <<>>, NoneV, NoneV)

\* SecretKey.random() returns the next key of key_ids
Phase1(user_id, role, key_ids) ==
    /\ keygen_count + 1 \in key_ids
    /\ LET r == phase1_user_registration(blockchain, keys_dir, keygen_count, user_id, role)
       IN /\ blockchain' = r.blockchain
          /\ keys_dir' = r.keys_dir
          /\ keygen_count' = keygen_count + 1
          /\ last' = Called("phase1_user_registration",
                            [user_id |-> user_id, role |-> role], r.err, <<>>, NoneV, NoneV)
    /\ UNCHANGED <<capsule_storage, ipfs, issued>>

\* pre.encrypt draws the next encapsulation randomness of nonces
Phase2(data, patient_id, record_id, nonces) ==
    /\ Len(issued) + 1 \in nonces
    /\ LET r == phase2_data_encryption(keys_dir, capsule_storage, Len(issued) + 1,
                                       data, patient_id, record_id)
       IN /\ capsule_storage' = r.capsule_storage
          /\ issued' = IF r.err = "ok" THEN Append(issued, r.ret) ELSE issued
          /\ last' = Called("phase2_data_encryption",
                            [patient_id |-> patient_id, record_id |-> record_id, data |-> data],
                            r.err, <<>>, NoneV, r.ret)
    /\ UNCHANGED <<blockchain, keys_dir, ipfs, keygen_count>>

\* The caller stores the ciphertext and the data of its i-th phase2 result
Phase3(i, answered) ==
    /\ i \in 1..Len(issued)
    /\ LET r == phase3_ipfs_storage(ipfs, issued[i].ciphertext, issued[i].data, answered)
       IN /\ ipfs' = r.ipfs
          /\ last' = Called("phase3_ipfs_storage", [ciphertext |-> issued[i].ciphertext],
                            r.err, r.calls, NoneV, r.ret)
    /\ UNCHANGED <<blockchain, keys_dir, capsule_storage, keygen_count, issued>>

\* The caller binds the locator of one ciphertext and the hash of one ciphertext
Phase4(record_id, owner_vid, uploader_vid, ct_stored, ct_hashed) ==
    /\ LET cid == content_id(ct_stored)
           cipher_hash == compute_hash(ct_hashed)
           r == phase4_onchain_storage(blockchain, record_id, owner_vid, uploader_vid,
                                       cid, cipher_hash)
       IN /\ blockchain' = r.bc
          /\ last' = Called("phase4_onchain_storage",
                            [record_id |-> record_id, owner_vid |-> owner_vid,
                             uploader_vid |-> uploader_vid, cid |-> cid,
                             cipher_hash |-> cipher_hash],
                            r.err, <<>>, NoneV, NoneV)
    /\ UNCHANGED <<keys_dir, capsule_storage, ipfs, keygen_count, issued>>

Phase5(owner_vid, viewer_vid, record_id) ==
    /\ LET r == phase5_access_request(blockchain, owner_vid, viewer_vid, record_id)
       IN /\ blockchain' = r.bc
          /\ last' = Called("phase5_access_request",
                            TripleArgs(owner_vid, viewer_vid, record_id, NoneV),
                            r.err, <<>>, NoneV, NoneV)
    /\ UNCHANGED <<keys_dir, capsule_storage, ipfs, keygen_count, issued>>

Phase6(owner_vid, viewer_vid, record_id, original_capsule, answered) ==
    /\ LET r == phase6_consent_approval_pre(blockchain, keys_dir, capsule_storage, ipfs,
                                            owner_vid, viewer_vid, record_id, original_capsule,
                                            answered)
       IN /\ blockchain' = r.blockchain
          /\ ipfs' = r.ipfs
          /\ last' = Called("phase6_consent_approval_pre",
                            TripleArgs(owner_vid, viewer_vid, record_id, original_capsule),
                            r.err, r.calls, NoneV, r.ret)
    /\ UNCHANGED <<keys_dir, capsule_storage, keygen_count, issued>>

\* served: what the content store hands out during this call
Phase7(viewer_vid, record_id, owner_vid, original_capsule, served) ==
    /\ LET r == phase7_data_retrieval_decryption(blockchain, keys_dir, capsule_storage,
                                                 served, viewer_vid, record_id, owner_vid,
                                                 original_capsule)
           looked_up == after_get_consent(blockchain, owner_vid, viewer_vid, record_id)
       IN /\ last' = Called("phase7_data_retrieval_decryption",
                            TripleArgs(owner_vid, viewer_vid, record_id, original_capsule),
                            r.err, r.calls, r.plaintext, r.ret)
          /\ blockchain' = IF r.err = "ConsentNotApproved"
                           THEN looked_up
                           ELSE after_get_record(looked_up, record_id)
    /\ UNCHANGED <<keys_dir, capsule_storage, ipfs, keygen_count, issued>>

Phase8(owner_vid, viewer_vid, record_id) ==
    /\ LET r == phase8_access_revocation(blockchain, owner_vid, viewer_vid, record_id)
       IN /\ blockchain' = r.bc
          /\ last' = Called("phase8_access_revocation",
                            TripleArgs(owner_vid, viewer_vid, record_id, NoneV),
                            r.err, <<>>, NoneV, NoneV)
    /\ UNCHANGED <<keys_dir, capsule_storage, ipfs, keygen_count, issued>>

----------------------------------------------------------------------------
(* Spec: the sharing of one record between an owner and a viewer *)

\* The secret keys and encapsulation randomness drawn, in order
KeyIds == {1, 2}
Nonces == {1}
\* (user_id, role) pairs given to phase1_user_registration
Registrations == {<<"p", "Patient">>, <<"v", "Viewer">>}
\* (owner_vid, viewer_vid, record_id) triples given to phases 5 to 8
Triples == {<<"p", "v", "r">>}
\* A well-formed capsule that no encryption of this simulator produced
ForeignCapsule == capsule_to_bytes([kind |-> "Capsule", pk |-> public_key(SecretKey(0)), n |-> 0])
CapsuleArgs == HeldCapsules \cup {NoneV, ForeignCapsule}

\* A step of a caller outside run_full_simulation, within the audit bound
Outside == Within(blockchain') /\ UNCHANGED <<run, threads>>

Next ==
    \/ \E reg \in Registrations : Phase1(reg[1], reg[2], KeyIds) /\ Outside
    \/ \E r \in Records \cup {NoRecordId} : Phase2(Hello, "p", r, Nonces) /\ Outside
    \/ \E i \in Nonces : Phase3(i, 2) /\ Outside
    \/ \E c \in HeldCiphertexts : Phase4("r", "p", "v", c, c) /\ Outside
    \/ \E t \in Triples : Phase5(t[1], t[2], t[3]) /\ Outside
    \/ \E t \in Triples, c \in CapsuleArgs : Phase6(t[1], t[2], t[3], c, 1) /\ Outside
    \/ \E t \in Triples, c \in CapsuleArgs, s \in Served(ipfs, blockchain) :
          Phase7(t[2], t[3], t[1], c, s) /\ Outside
    \/ \E t \in Triples : Phase8(t[1], t[2], t[3]) /\ Outside

Spec == Init /\ [][Next]_vars

----------------------------------------------------------------------------
(* SpecStore: the same sharing with a content store that may not answer; what
   it does answer is what was uploaded *)

NextStore ==
    \/ \E reg \in Registrations : Phase1(reg[1], reg[2], KeyIds) /\ Outside
    \/ \E r \in Records : Phase2(Hello, "p", r, Nonces) /\ Outside
    \/ \E i \in Nonces, n \in 0..2 : Phase3(i, n) /\ Outside
    \/ \E c \in HeldCiphertexts : Phase4("r", "p", "v", c, c) /\ Outside
    \/ \E t \in Triples : Phase5(t[1], t[2], t[3]) /\ Outside
    \/ \E t \in Triples, c \in CapsuleArgs, n \in 0..1 :
          Phase6(t[1], t[2], t[3], c, n) /\ Outside
    \/ \E t \in Triples : Phase7(t[2], t[3], t[1], NoneV, ipfs) /\ Outside
    \/ \E t \in Triples : Phase8(t[1], t[2], t[3]) /\ Outside

SpecStore == Init /\ [][NextStore]_vars

----------------------------------------------------------------------------
(* SpecChain: the registries of MockBlockchain called directly *)

RegisterUser(user_id, role, pk_bytes) ==
    /\ LET r == register_user(blockchain, user_id, role, pk_bytes)
       IN /\ blockchain' = r.bc
          /\ last' = Called("register_user",
                            [user_id |-> user_id, role |-> role, public_key |-> pk_bytes],
                            r.err, <<>>, NoneV, NoneV)
    /\ UNCHANGED <<keys_dir, capsule_storage, ipfs, keygen_count, issued>>

StoreRecord(record_id, owner_vid, uploader_vid, cid, file_hash) ==
    /\ LET r == store_record(blockchain, record_id, owner_vid, uploader_vid, cid, file_hash)
       IN /\ blockchain' = r.bc
          /\ last' = Called("store_record",
                            [record_id |-> record_id, owner_vid |-> owner_vid,
                             uploader_vid |-> uploader_vid, cid |-> cid, hash |-> file_hash],
                            r.err, <<>>, NoneV, NoneV)
    /\ UNCHANGED <<keys_dir, capsule_storage, ipfs, keygen_count, issued>>

RequestAccess(owner_vid, viewer_vid, record_id) ==
    /\ LET r == request_access(blockchain, owner_vid, viewer_vid, record_id)
       IN /\ blockchain' = r.bc
          /\ last' = Called("request_access",
                            TripleArgs(owner_vid, viewer_vid, record_id, NoneV),
                            r.err, <<>>, NoneV, NoneV)
    /\ UNCHANGED <<keys_dir, capsule_storage, ipfs, keygen_count, issued>>

ApproveAccess(owner_vid, viewer_vid, record_id, capsule_cid, capsule_hash) ==
    /\ LET r == approve_access(blockchain, owner_vid, viewer_vid, record_id,
                               capsule_cid, capsule_hash)
       IN /\ blockchain' = r.bc
          /\ last' = Called("approve_access",
                            TripleArgs(owner_vid, viewer_vid, record_id, NoneV),
                            r.err, <<>>, NoneV,
                            [capsule_cid |-> capsule_cid, capsule_hash |-> capsule_hash])
    /\ UNCHANGED <<keys_dir, capsule_storage, ipfs, keygen_count, issued>>

RevokeAccess(owner_vid, viewer_vid, record_id) ==
    /\ LET r == revoke_access(blockchain, owner_vid, viewer_vid, record_id)
       IN /\ blockchain' = r.bc
          /\ last' = Called("revoke_access",
                            TripleArgs(owner_vid, viewer_vid, record_id, NoneV),
                            r.err, <<>>, NoneV, NoneV)
    /\ UNCHANGED <<keys_dir, capsule_storage, ipfs, keygen_count, issued>>

\* (owner_vid, viewer_vid, record_id) triples given to the consent registry
ChainTriples == {<<"p", "v", "r">>, <<"p", "v", "r2">>}
\* The bytes whose locator and hash are given to store_record and approve_access
ChainBlobs == Payloads
ChainKey == public_key_to_bytes(public_key(SecretKey(1)))

NextChain ==
    \/ RegisterUser("p", "Patient", ChainKey) /\ Outside
    \/ StoreRecord("r", "p", "p", content_id(Hello), compute_hash(Hello)) /\ Outside
    \/ \E t \in ChainTriples : RequestAccess(t[1], t[2], t[3]) /\ Outside
    \/ \E t \in ChainTriples, b \in ChainBlobs :
          ApproveAccess(t[1], t[2], t[3], content_id(b), compute_hash(b)) /\ Outside
    \/ \E t \in ChainTriples : RevokeAccess(t[1], t[2], t[3]) /\ Outside

SpecChain == Init /\ [][NextChain]_vars

----------------------------------------------------------------------------
(* SpecLife: one MockBlockchain object over its whole life, reset() included *)

\* MockBlockchain.reset: a public method, also called by __init__
Reset ==
    /\ blockchain' = MockBlockchain
    /\ last' = Called("reset", NoneV, "ok", <<>>, NoneV, NoneV)
    /\ UNCHANGED <<keys_dir, capsule_storage, ipfs, keygen_count, issued>>

NextLife ==
    \/ \E u \in Users : RegisterUser(u, "Patient", ChainKey) /\ Outside
    \/ StoreRecord("r", "p", "p", content_id(Hello), compute_hash(Hello)) /\ Outside
    \/ \E t \in Triples : RequestAccess(t[1], t[2], t[3]) /\ Outside
    \/ \E t \in Triples :
          ApproveAccess(t[1], t[2], t[3], content_id(Hello), compute_hash(Hello)) /\ Outside
    \/ \E t \in Triples : RevokeAccess(t[1], t[2], t[3]) /\ Outside
    \/ Reset /\ Outside

SpecLife == Init /\ [][NextLife]_vars

----------------------------------------------------------------------------
(* SpecRegistry: the identity and record registries of MockBlockchain *)

\* The public keys given to register_user
RegistryKeys == {public_key_to_bytes(public_key(SecretKey(1))),
                 public_key_to_bytes(public_key(SecretKey(2)))}
\* The record ids given to store_record
RegistryRecords == {"r", "r2"}

\* The roles given to register_user
RegistryRoles == {"Patient", "Viewer"}
\* (owner_vid, stored bytes) given to store_record
RegistryStores == {<<"p", Hello>>, <<"v", [kind |-> "raw", v |-> "x", size |-> 1]>>}

NextRegistry ==
    \/ \E u \in Users, role \in RegistryRoles, k \in RegistryKeys :
          RegisterUser(u, role, k) /\ Outside
    \/ \E r \in RegistryRecords, st \in RegistryStores :
          StoreRecord(r, st[1], "v", content_id(st[2]), compute_hash(st[2])) /\ Outside
    \/ \E t \in Triples : RequestAccess(t[1], t[2], t[3]) /\ Outside

SpecRegistry == Init /\ [][NextRegistry]_vars

----------------------------------------------------------------------------
(* SpecKeys: the consent registry called with ids that contain ':' *)

\* (owner_vid, viewer_vid, record_id) triples given to the consent registry
KeyTriples == {<<"a:b", "c", "d">>, <<"a", "b:c", "d">>, <<"a", "b", "c">>}

\* MockBlockchain.get_consent
GetConsent(owner_vid, viewer_vid, record_id) ==
    /\ last' = Called("get_consent", TripleArgs(owner_vid, viewer_vid, record_id, NoneV),
                      "ok", <<>>, NoneV,
                      get_consent(blockchain, owner_vid, viewer_vid, record_id))
    /\ UNCHANGED <<blockchain, keys_dir, capsule_storage, ipfs, keygen_count, issued>>

NextKeys ==
    \/ \E t \in KeyTriples : RequestAccess(t[1], t[2], t[3]) /\ Outside
    \/ \E t \in KeyTriples :
          ApproveAccess(t[1], t[2], t[3], content_id(Hello), compute_hash(Hello)) /\ Outside
    \/ \E t \in KeyTriples : RevokeAccess(t[1], t[2], t[3]) /\ Outside
    \/ \E t \in KeyTriples : GetConsent(t[1], t[2], t[3]) /\ Outside

SpecKeys == Init /\ [][NextKeys]_vars

----------------------------------------------------------------------------
(* SpecRun: SimulationRunner.run_full_simulation (simulate.py), called
   repeatedly on one simulator as run_batch does *)

\* The number of run_full_simulation calls
MaxRuns == 2

\* (patient_id, doctor_id, viewer_id, record_id) given to run_full_simulation
RunIds == {<<"P0", "D0", "V0", "R0">>, <<"P1", "D1", "V1", "R1">>, <<"P1", "D1", "V1", "R0">>}

\* A run that goes on to the next phase whatever the phase did
ProceedRegardless(next) ==
    /\ run' = [run EXCEPT !.pc = next]
    /\ UNCHANGED threads

\* The run moves to the next phase, or the exception of the phase is re-raised
Proceed(next) ==
    /\ run' = [run EXCEPT !.pc = IF last'.err = "ok" THEN next ELSE "raised"]
    /\ UNCHANGED threads

RunFullSimulation(patient_id, doctor_id, viewer_id, record_id, test_data) ==
    /\ run.pc \in {"idle", "returned", "raised"}
    /\ run.count < MaxRuns
    /\ run' = [pc |-> "phase1_patient", count |-> run.count + 1,
               patient_id |-> patient_id, doctor_id |-> doctor_id, viewer_id |-> viewer_id,
               record_id |-> record_id, test_data |-> test_data, phase2 |-> NoneV]
    /\ last' = Called("run_full_simulation",
                      [patient_id |-> patient_id, doctor_id |-> doctor_id,
                       viewer_id |-> viewer_id, record_id |-> record_id,
                       test_data |-> test_data], "ok", <<>>, NoneV, NoneV)
    /\ UNCHANGED <<blockchain, keys_dir, capsule_storage, ipfs, keygen_count, issued, threads>>

RunPhase1Patient ==
    /\ run.pc = "phase1_patient"
    /\ Phase1(run.patient_id, "Patient", Nat)
    /\ Proceed("phase1_doctor")

RunPhase1Doctor ==
    /\ run.pc = "phase1_doctor"
    /\ Phase1(run.doctor_id, "Doctor", Nat)
    /\ Proceed("phase1_viewer")

RunPhase1Viewer ==
    /\ run.pc = "phase1_viewer"
    /\ Phase1(run.viewer_id, "Viewer", Nat)
    /\ Proceed("phase2")

\* original_capsule = phase2['capsule']
RunPhase2 ==
    /\ run.pc = "phase2"
    /\ Phase2(run.test_data, run.patient_id, run.record_id, Nat)
    /\ run' = [run EXCEPT !.pc = IF last'.err = "ok" THEN "phase3" ELSE "raised",
                          !.phase2 = last'.ret]
    /\ UNCHANGED threads

\* phase3_ipfs_storage(phase2['ciphertext'], test_data, record_id)
RunPhase3 ==
    /\ run.pc = "phase3"
    /\ \E n \in 0..2 : Phase3(Len(issued), n)
    /\ Proceed("phase4")

\* phase4_onchain_storage(record_id, patient_id, doctor_id, phase3['encrypted_cid'],
\*                        phase2['cipher_hash'])
RunPhase4 ==
    /\ run.pc = "phase4"
    /\ Phase4(run.record_id, run.patient_id, run.doctor_id,
              run.phase2.ciphertext, run.phase2.ciphertext)
    /\ Proceed("phase5")

RunPhase5 ==
    /\ run.pc = "phase5"
    /\ Phase5(run.patient_id, run.viewer_id, run.record_id)
    /\ Proceed("phase6")

RunPhase6 ==
    /\ run.pc = "phase6"
    /\ \E n \in 0..1 : Phase6(run.patient_id, run.viewer_id, run.record_id,
                                 run.phase2.capsule, n)
    /\ Proceed("phase7")

\* The content store serves what was uploaded
RunPhase7 ==
    /\ run.pc = "phase7"
    /\ Phase7(run.viewer_id, run.record_id, run.patient_id, run.phase2.capsule, ipfs)
    /\ Proceed("phase8")

RunPhase8 ==
    /\ run.pc = "phase8"
    /\ Phase8(run.patient_id, run.viewer_id, run.record_id)
    /\ Proceed("returned")

NextRun ==
    \/ \E ids \in RunIds, test_data \in Payloads :
          RunFullSimulation(ids[1], ids[2], ids[3], ids[4], test_data)
    \/ RunPhase1Patient
    \/ RunPhase1Doctor
    \/ RunPhase1Viewer
    \/ RunPhase2
    \/ RunPhase3
    \/ RunPhase4
    \/ RunPhase5
    \/ RunPhase6
    \/ RunPhase7
    \/ RunPhase8

SpecRun == Init /\ [][NextRun]_vars

\* The statements of a run_full_simulation call in progress
RunSteps ==
    \/ RunPhase1Patient
    \/ RunPhase1Doctor
    \/ RunPhase1Viewer
    \/ RunPhase2
    \/ RunPhase3
    \/ RunPhase4
    \/ RunPhase5
    \/ RunPhase6
    \/ RunPhase7
    \/ RunPhase8

\* A call in progress executes its next statement: the code is straight-line
\* and every phase returns or raises
SpecRunFair == SpecRun /\ WF_vars(RunSteps)

----------------------------------------------------------------------------
(* SpecRace: two callers inside one simulator at the same time. The methods
   take no lock, so another caller may run between two of their statements. *)

\* "if user_id in self.users", "if record_id in self.records",
\* "if consent_key in self.consents"
already_present(bc, op, a) ==
    CASE op = "register_user" -> a.user_id \in DOMAIN bc.users
      [] op = "store_record" -> a.record_id \in DOMAIN bc.records
      [] op = "request_access" ->
            consent_key(a.owner_vid, a.viewer_vid, a.record_id) \in DOMAIN bc.consents

already_error(op) ==
    CASE op = "register_user" -> "UserAlreadyRegistered"
      [] op = "store_record" -> "RecordAlreadyExists"
      [] op = "request_access" -> "ConsentAlreadyExists"

\* "self.users[user_id] = User(...)", "self.records[record_id] = Record(...)",
\* "self.consents[consent_key] = Consent(...)"
assign_entry(bc, op, a) ==
    CASE op = "register_user" ->
            [bc EXCEPT !.users = Put(@, a.user_id,
                [user_id |-> a.user_id, role |-> a.role, public_key |-> a.public_key,
                 registered_at |-> time_time(bc)])]
      [] op = "store_record" ->
            [bc EXCEPT !.records = Put(@, a.record_id,
                [record_id |-> a.record_id, owner_vid |-> a.owner_vid,
                 uploader_vid |-> a.uploader_vid, cid |-> a.cid, hash |-> a.hash,
                 stored_at |-> time_time(bc)])]
      [] op = "request_access" ->
            [bc EXCEPT !.consents = Put(@, consent_key(a.owner_vid, a.viewer_vid, a.record_id),
                [owner_vid |-> a.owner_vid, viewer_vid |-> a.viewer_vid,
                 record_id |-> a.record_id, status |-> "requested",
                 capsule_cid |-> NoneV, capsule_hash |-> NoneV,
                 created_at |-> time_time(bc), updated_at |-> time_time(bc)])]

\* "self._log_audit(...)" of the three inserting methods
audit_entry(bc, op, a) ==
    CASE op = "register_user" ->
            log_audit(bc, "registration", [user_id |-> a.user_id, role |-> a.role])
      [] op = "store_record" ->
            log_audit(bc, "store_record",
                      [record_id |-> a.record_id, owner_vid |-> a.owner_vid,
                       uploader_vid |-> a.uploader_vid, cid |-> a.cid])
      [] op = "request_access" ->
            log_audit(bc, "request_access",
                      [owner_vid |-> a.owner_vid, viewer_vid |-> a.viewer_vid,
                       record_id |-> a.record_id])

Inserting == {"register_user", "store_record", "request_access"}

\* The calls a caller may make once the run has shared its record
RaceCalls ==
    {[op |-> "register_user",
      args |-> [user_id |-> "N", role |-> role, public_key |-> ChainKey]] :
        role \in RegistryRoles}
    \cup {[op |-> "store_record",
           args |-> [record_id |-> "R9", owner_vid |-> o, uploader_vid |-> "D0",
                     cid |-> content_id(Hello), hash |-> compute_hash(Hello)]] :
             o \in {"P0", "V0"}}
    \cup {[op |-> "request_access", args |-> TripleArgs("P0", "D0", "R0", NoneV)],
          [op |-> "revoke_access", args |-> TripleArgs("P0", "V0", "R0", NoneV)],
          [op |-> "phase7_data_retrieval_decryption",
           args |-> TripleArgs("P0", "V0", "R0", NoneV)]}

\* The frame of a step of a caller
ThreadFrame == UNCHANGED <<keys_dir, capsule_storage, ipfs, keygen_count, issued, run, last>>

\* A caller enters a method when the run has reached phase 7
ThreadCall(t, call) ==
    /\ run.pc = "phase7"
    /\ threads[t].pc = "idle"
    /\ threads' = [threads EXCEPT ![t] = [IdleThread EXCEPT !.pc = "entered",
                                                            !.op = call.op,
                                                            !.args = call.args]]
    /\ UNCHANGED blockchain
    /\ ThreadFrame

\* The membership test of register_user, store_record and request_access
ThreadCheck(t) ==
    /\ threads[t].pc = "entered"
    /\ threads[t].op \in Inserting
    /\ threads' = [threads EXCEPT ![t] =
          IF already_present(blockchain, threads[t].op, threads[t].args)
          THEN [@ EXCEPT !.pc = "done", !.err = already_error(threads[t].op)]
          ELSE [@ EXCEPT !.pc = "checked"]]
    /\ UNCHANGED blockchain
    /\ ThreadFrame

\* The assignment of the new entry
ThreadAssign(t) ==
    /\ threads[t].pc = "checked"
    /\ blockchain' = assign_entry(blockchain, threads[t].op, threads[t].args)
    /\ threads' = [threads EXCEPT ![t].pc = "assigned"]
    /\ ThreadFrame

\* The audit entry, after which the method returns
ThreadLog(t) ==
    /\ threads[t].pc = "assigned"
    /\ blockchain' = audit_entry(blockchain, threads[t].op, threads[t].args)
    /\ threads' = [threads EXCEPT ![t].pc = "done"]
    /\ ThreadFrame

\* MockBlockchain.revoke_access
ThreadRevoke(t) ==
    /\ threads[t].pc = "entered"
    /\ threads[t].op = "revoke_access"
    /\ LET a == threads[t].args
           r == revoke_access(blockchain, a.owner_vid, a.viewer_vid, a.record_id)
       IN /\ blockchain' = r.bc
          /\ threads' = [threads EXCEPT ![t].pc = "done", ![t].err = r.err]
    /\ ThreadFrame

\* The Consent object that phase7 holds in its local variable consent: get_consent
\* returns the object of the registry, not a copy
held_consent(bc, a) == get_consent(bc, a.owner_vid, a.viewer_vid, a.record_id)

\* phase7: "consent = get_consent(...)" to "if not record: raise"
Phase7Lookup(t) ==
    /\ threads[t].pc = "entered"
    /\ threads[t].op = "phase7_data_retrieval_decryption"
    /\ LET a == threads[t].args
           err == IF ~consent_approved(held_consent(blockchain, a)) THEN "ConsentNotApproved"
                  ELSE IF get_record(blockchain, a.record_id) = NoneV THEN "RecordNotFound"
                  ELSE "ok"
       IN threads' = [threads EXCEPT ![t] =
             IF err = "ok" THEN [@ EXCEPT !.pc = "looked_up"]
             ELSE [@ EXCEPT !.pc = "done", !.err = err]]
    /\ UNCHANGED blockchain
    /\ ThreadFrame

\* phase7: the two downloads
Phase7Download(t) ==
    /\ threads[t].pc = "looked_up"
    /\ LET a == threads[t].args
           d1 == ipfs_download(ipfs, get_record(blockchain, a.record_id).cid)
           d2 == ipfs_download(ipfs, held_consent(blockchain, a).capsule_cid)
       IN threads' = [threads EXCEPT ![t] =
             IF d1.err # "ok" THEN [@ EXCEPT !.pc = "done", !.err = d1.err]
             ELSE IF d2.err # "ok" THEN [@ EXCEPT !.pc = "done", !.err = d2.err]
             ELSE [@ EXCEPT !.pc = "downloaded",
                            !.local = [ciphertext |-> d1.data, cfrag_data |-> d2.data]]]
    /\ UNCHANGED blockchain
    /\ ThreadFrame

\* phase7: the two hash comparisons
Phase7Hashes(t) ==
    /\ threads[t].pc = "downloaded"
    /\ LET a == threads[t].args
           l == threads[t].local
       IN threads' = [threads EXCEPT ![t] =
             IF ~ciphertext_hash_ok(l.ciphertext, get_record(blockchain, a.record_id))
             THEN [@ EXCEPT !.pc = "done", !.err = "CiphertextHashMismatch"]
             ELSE IF ~capsule_hash_ok(l.cfrag_data, held_consent(blockchain, a))
             THEN [@ EXCEPT !.pc = "done", !.err = "CapsuleHashMismatch"]
             ELSE [@ EXCEPT !.pc = "hashed"]]
    /\ UNCHANGED blockchain
    /\ ThreadFrame

\* phase7: the capsule, the keys and decrypt_with_cfrag; the caller notes the
\* status that the consent has at this moment
Phase7Decrypt(t) ==
    /\ threads[t].pc = "hashed"
    /\ LET a == threads[t].args
           l == threads[t].local
           capsule == capsule_storage_get(capsule_storage, a.record_id)
           viewer_priv_key == load_private_key(keys_dir, a.viewer_vid)
           owner_pub_key == load_public_key(keys_dir, a.owner_vid)
           status == [status_at_decrypt |-> held_consent(blockchain, a).status]
       IN threads' = [threads EXCEPT ![t] =
             IF capsule = NoneV
             THEN [@ EXCEPT !.pc = "done", !.err = "CapsuleNotFound", !.local = status]
             ELSE IF viewer_priv_key.err # "ok"
             THEN [@ EXCEPT !.pc = "done", !.err = viewer_priv_key.err, !.local = status]
             ELSE IF owner_pub_key.err # "ok"
             THEN [@ EXCEPT !.pc = "done", !.err = owner_pub_key.err, !.local = status]
             ELSE LET d == decrypt_with_cfrag(l.ciphertext, capsule, l.cfrag_data,
                                              viewer_priv_key.key, owner_pub_key.key)
                  IN [@ EXCEPT !.pc = "done", !.err = d.err, !.plaintext = d.plaintext,
                               !.local = status]]
    /\ UNCHANGED blockchain
    /\ ThreadFrame

NextRace ==
    \/ RunFullSimulation("P0", "D0", "V0", "R0", Hello)
    \/ RunPhase1Patient
    \/ RunPhase1Doctor
    \/ RunPhase1Viewer
    \/ RunPhase2
    \/ RunPhase3
    \/ RunPhase4
    \/ RunPhase5
    \/ RunPhase6
    \/ \E t \in Threads, call \in RaceCalls : ThreadCall(t, call)
    \/ \E t \in Threads : ThreadCheck(t)
    \/ \E t \in Threads : ThreadAssign(t)
    \/ \E t \in Threads : ThreadLog(t)
    \/ \E t \in Threads : ThreadRevoke(t)
    \/ \E t \in Threads : Phase7Lookup(t)
    \/ \E t \in Threads : Phase7Download(t)
    \/ \E t \in Threads : Phase7Hashes(t)
    \/ \E t \in Threads : Phase7Decrypt(t)

SpecRace == Init /\ [][NextRace]_vars

----------------------------------------------------------------------------
(* SpecCrypto: CryptoManager called directly on the owner's path *)

\* The secret keys and encapsulation randomness drawn, in order
CryptoKeyIds == {1, 2, 3}
CryptoNonces == {1, 2}

GenerateKeypair(user_id, key_ids) ==
    /\ keygen_count + 1 \in key_ids
    /\ LET g == generate_keypair(keys_dir, keygen_count, user_id)
       IN /\ keys_dir' = g.keys_dir
          /\ keygen_count' = keygen_count + 1
          /\ last' = Called("generate_keypair", [user_id |-> user_id], "ok", <<>>, NoneV,
                            [priv_key |-> g.priv_key, pub_key |-> g.pub_key])
    /\ UNCHANGED <<blockchain, capsule_storage, ipfs, issued, run, threads>>

\* encrypt for the public key that generate_keypair returned as its k-th key
Encrypt(data, k, nonces) ==
    /\ Len(issued) + 1 \in nonces
    /\ k \in 1..keygen_count
    /\ LET recipient_public_key == public_key(SecretKey(k))
           e == encrypt(data, recipient_public_key, Len(issued) + 1)
           ret == [ciphertext |-> e.ciphertext, capsule |-> e.capsule, data |-> data,
                   recipient_public_key |-> recipient_public_key]
       IN /\ issued' = Append(issued, ret)
          /\ last' = Called("encrypt", [data |-> data,
                                        recipient_public_key |-> recipient_public_key],
                            "ok", <<>>, NoneV, ret)
    /\ UNCHANGED <<blockchain, keys_dir, capsule_storage, ipfs, keygen_count, run, threads>>

\* decrypt the i-th encryption result with the k-th secret key
Decrypt(i, k) ==
    /\ i \in 1..Len(issued)
    /\ k \in 1..keygen_count
    /\ LET private_key == SecretKey(k)
           d == decrypt(issued[i].ciphertext, issued[i].capsule, private_key)
       IN last' = Called("decrypt", [i |-> i, private_key |-> private_key],
                         d.err, <<>>, d.plaintext, NoneV)
    /\ UNCHANGED <<blockchain, keys_dir, capsule_storage, ipfs, keygen_count, issued, run, threads>>

NextCrypto ==
    \/ \E u \in Users : GenerateKeypair(u, CryptoKeyIds)
    \/ \E data \in Payloads, k \in CryptoKeyIds : Encrypt(data, k, CryptoNonces)
    \/ \E i \in CryptoNonces, k \in CryptoKeyIds : Decrypt(i, k)

SpecCrypto == Init /\ [][NextCrypto]_vars

----------------------------------------------------------------------------
(* Claims about retrieval, checked under Spec *)

IsPhase7 == last.op = "phase7_data_retrieval_decryption"

\* The consent entry, the record and the capsule that the last call looked up
LastConsent == get_consent(blockchain, last.args.owner_vid, last.args.viewer_vid,
                           last.args.record_id)
LastRecord == get_record(blockchain, last.args.record_id)
LastCapsule ==
    IF last.args.original_capsule = NoneV
    THEN capsule_storage_get(capsule_storage, last.args.record_id)
    ELSE last.args.original_capsule

\* revoke_access has succeeded for the triple at some earlier point
Revoked(owner_vid, viewer_vid, record_id) ==
    \E i \in 1..Len(blockchain.audit_log) :
        /\ blockchain.audit_log[i].action = "revoke_access"
        /\ blockchain.audit_log[i].details =
              [owner_vid |-> owner_vid, viewer_vid |-> viewer_vid, record_id |-> record_id]

CallsNamed(fn) == {i \in 1..Len(last.calls) : last.calls[i].fn = fn}

\* C1: once revoke_access has succeeded for a triple, every later
\* phase7_data_retrieval_decryption for that triple fails at the consent-status
\* check and yields no plaintext.
C1_RevocationIsAbsolute ==
    (IsPhase7 /\ Revoked(last.args.owner_vid, last.args.viewer_vid, last.args.record_id))
        => (last.err = "ConsentNotApproved" /\ last.plaintext = NoneV)

\* C3: phase7_data_retrieval_decryption yields plaintext only if the consent entry
\* of the triple exists with status approved; when it is absent, requested or
\* revoked the call raises before any download and before any fragment
\* verification or decryption.
C3_RetrievalGatedByConsent ==
    IsPhase7 =>
        /\ (LastConsent = NoneV \/ LastConsent.status # "approved")
              => (last.err = "ConsentNotApproved" /\ last.plaintext = NoneV /\ last.calls = <<>>)
        /\ last.plaintext # NoneV => (LastConsent # NoneV /\ LastConsent.status = "approved")

C3_Witness ==
    /\ IsPhase7
    /\ LastConsent # NoneV
    /\ LastConsent.status = "revoked"
    /\ last.err = "ConsentNotApproved"
    /\ Honest(ipfs)
    /\ last.args.record_id \in DOMAIN blockchain.records

\* C4: if the bytes downloaded from the record's locator hash to a value different
\* from the hash stored for the record, phase7_data_retrieval_decryption raises and
\* decrypt_with_cfrag is never invoked.
C4_CiphertextIntegrity ==
    (/\ IsPhase7
     /\ Len(last.calls) >= 1
     /\ last.calls[1].err = "ok"
     /\ compute_hash(last.calls[1].data) # LastRecord.hash)
        => (/\ last.err # "ok"
            /\ last.plaintext = NoneV
            /\ CallsNamed("decrypt_with_cfrag") = {})

C4_Witness ==
    /\ IsPhase7
    /\ last.err = "CiphertextHashMismatch"
    /\ last.calls[1].data = Junk
    /\ last.calls[2].err = "ok"
    /\ compute_hash(last.calls[2].data) = LastConsent.capsule_hash

\* C5: if the bytes downloaded from the consent's fragment locator hash to a value
\* different from the fragment hash recorded in the consent entry,
\* phase7_data_retrieval_decryption raises and neither fragment verification nor
\* decryption is invoked.
C5_FragmentIntegrity ==
    (/\ IsPhase7
     /\ Len(last.calls) >= 2
     /\ last.calls[2].err = "ok"
     /\ compute_hash(last.calls[2].data) # LastConsent.capsule_hash)
        => (/\ last.err # "ok"
            /\ last.plaintext = NoneV
            /\ CallsNamed("decrypt_with_cfrag") = {}
            /\ CallsNamed("cfrag.verify") = {}
            /\ CallsNamed("pre.decrypt_reencrypted") = {})

C5_Witness ==
    /\ IsPhase7
    /\ last.err = "CapsuleHashMismatch"
    /\ last.calls[2].data.kind = "cfrag_bytes"
    /\ compute_hash(last.calls[1].data) = LastRecord.hash

\* C6: pre.decrypt_reencrypted is called only with a fragment that has passed
\* cfrag.verify against the same capsule, with the owner's public key as signer and
\* as delegator and with the viewer's public key; when verification fails no
\* decryption is attempted.
C6_VerifyBeforeDecrypt ==
    IsPhase7 =>
        /\ \A j \in CallsNamed("pre.decrypt_reencrypted") :
              \E i \in CallsNamed("cfrag.verify") :
                  /\ i < j
                  /\ last.calls[i].ok
                  /\ last.calls[i].cfrag = last.calls[j].cfrag
                  /\ last.calls[i].capsule = last.calls[j].capsule
                  /\ last.calls[i].verifying_pk = load_public_key(keys_dir, last.args.owner_vid).key
                  /\ last.calls[i].delegating_pk = load_public_key(keys_dir, last.args.owner_vid).key
                  /\ last.calls[i].receiving_pk = load_public_key(keys_dir, last.args.viewer_vid).key
                  /\ last.calls[j].cfrag.capsule = last.calls[j].capsule
                  /\ last.calls[j].cfrag.signer = last.calls[i].verifying_pk
                  /\ last.calls[j].cfrag.delegating = last.calls[i].delegating_pk
                  /\ last.calls[j].cfrag.receiving = last.calls[i].receiving_pk
        /\ \A i \in CallsNamed("cfrag.verify") :
              ~last.calls[i].ok =>
                  /\ CallsNamed("pre.decrypt_reencrypted") = {}
                  /\ last.err = "VerificationError"
                  /\ last.plaintext = NoneV

C6_Witness ==
    /\ IsPhase7
    /\ last.err = "ok"
    /\ CallsNamed("cfrag.verify") # {}
    /\ CallsNamed("pre.decrypt_reencrypted") # {}

\* C8: if the fragment recorded at approval was derived from a capsule different
\* from the one used at retrieval, phase7_data_retrieval_decryption returns no
\* plaintext, and once it reaches decrypt_with_cfrag it fails at fragment
\* verification, before pre.decrypt_reencrypted.
RecordedFragment == LastConsent.capsule_hash.of
WrongCapsule ==
    /\ IsPhase7
    /\ LastConsent # NoneV
    /\ LastConsent.status = "approved"
    /\ RecordedFragment.kind = "cfrag_bytes"
    /\ LastCapsule # NoneV
    /\ capsule_to_bytes(RecordedFragment.capsule) # LastCapsule

C8_WrongCapsuleRejected ==
    WrongCapsule =>
        /\ last.plaintext = NoneV
        /\ last.err # "ok"
        /\ CallsNamed("decrypt_with_cfrag") # {} =>
              /\ last.err = "VerificationError"
              /\ CallsNamed("pre.decrypt_reencrypted") = {}

C8_Witness ==
    /\ WrongCapsule
    /\ last.err = "VerificationError"
    /\ last.args.original_capsule \in HeldCapsules
    /\ RecordedFragment.capsule.n = 0

----------------------------------------------------------------------------
(* Claims about the consent registry, checked under SpecChain *)

\* C2: once revoke_access has succeeded for a triple its consent entry stays
\* revoked: no later request_access, approve_access or revoke_access call makes it
\* approved again, approve_access on a revoked entry failing.
C2_RevokedIsPermanent ==
    \A t \in ChainTriples :
        Revoked(t[1], t[2], t[3]) => get_consent(blockchain, t[1], t[2], t[3]).status = "revoked"

\* C10: request_access on a triple without an entry creates an entry with status
\* requested and empty fragment locator and hash; on a triple that has an entry in
\* any status it fails and leaves the registries and the audit log unchanged.
C10_RequestAccess ==
    [][last'.op = "request_access" =>
          LET a == last'.args
              key == consent_key(a.owner_vid, a.viewer_vid, a.record_id)
          IN IF key \in DOMAIN blockchain.consents
             THEN /\ last'.err = "ConsentAlreadyExists"
                  /\ blockchain' = blockchain
             ELSE /\ last'.err = "ok"
                  /\ DOMAIN blockchain'.consents = DOMAIN blockchain.consents \cup {key}
                  /\ \A k \in DOMAIN blockchain.consents :
                        blockchain'.consents[k] = blockchain.consents[k]
                  /\ blockchain'.consents[key].owner_vid = a.owner_vid
                  /\ blockchain'.consents[key].viewer_vid = a.viewer_vid
                  /\ blockchain'.consents[key].record_id = a.record_id
                  /\ blockchain'.consents[key].status = "requested"
                  /\ blockchain'.consents[key].capsule_cid = NoneV
                  /\ blockchain'.consents[key].capsule_hash = NoneV]_vars

C10_Witness ==
    /\ last.op = "request_access"
    /\ last.err = "ConsentAlreadyExists"
    /\ last.args.record_id = "r"
    /\ get_consent(blockchain, "p", "v", "r").status = "approved"
    /\ get_consent(blockchain, "p", "v", "r2") # NoneV
    /\ get_consent(blockchain, "p", "v", "r2").status = "revoked"

----------------------------------------------------------------------------
(* Claims about the round trips *)

\* C7: in run_full_simulation, once phase5 has returned, phase6 with the capsule of
\* the run's phase2 and then phase7 with an honest content store (one that answers
\* and serves what was uploaded) succeed, and phase7 decrypts to exactly the test
\* data that phase2 encrypted.
C7_DelegatedRoundTrip ==
    /\ (run.pc = "raised" /\ last.err # "Unavailable") =>
          last.op \notin {"phase6_consent_approval_pre", "phase7_data_retrieval_decryption"}
    /\ run.pc = "phase8" =>
          /\ last.op = "phase7_data_retrieval_decryption"
          /\ last.err = "ok"
          /\ last.plaintext = run.test_data
          /\ last.ret.plaintext_size_bytes = run.test_data.size

C7_Witness ==
    /\ run.pc = "phase8"
    /\ run.count = 2
    /\ run.test_data # Hello
    /\ last.plaintext = run.test_data
    /\ "R0" \in DOMAIN blockchain.records

----------------------------------------------------------------------------
(* Claims about the consent transitions, checked under SpecChain *)

\* The consent key of the triple of the call that the step makes
CalledKey == consent_key(last'.args.owner_vid, last'.args.viewer_vid, last'.args.record_id)

\* C11: approve_access for a triple without a consent entry raises, creates no
\* entry and leaves users, records, consents and the audit log unchanged.
C11_ApproveBeforeRequest ==
    [][(last'.op = "approve_access" /\ CalledKey \notin DOMAIN blockchain.consents)
          => (/\ last'.err = "ConsentNotFound"
              /\ blockchain' = blockchain)]_vars

C11_Witness ==
    /\ last.op = "approve_access"
    /\ last.err = "ConsentNotFound"
    /\ last.args.record_id = "r2"
    /\ get_consent(blockchain, "p", "v", "r2") = NoneV
    /\ get_consent(blockchain, "p", "v", "r") # NoneV

\* C12: revoke_access on an existing consent entry sets its status to revoked and
\* clears its fragment locator and hash; on a triple without an entry it fails and
\* changes nothing.
C12_RevokeClears ==
    [][last'.op = "revoke_access" =>
          IF CalledKey \in DOMAIN blockchain.consents
          THEN /\ last'.err = "ok"
               /\ DOMAIN blockchain'.consents = DOMAIN blockchain.consents
               /\ blockchain'.consents[CalledKey].status = "revoked"
               /\ blockchain'.consents[CalledKey].capsule_cid = NoneV
               /\ blockchain'.consents[CalledKey].capsule_hash = NoneV
          ELSE /\ last'.err = "ConsentNotFound"
               /\ blockchain' = blockchain]_vars

\* The audit log records a successful approve_access for the triple
Approved(owner_vid, viewer_vid, record_id) ==
    \E i \in 1..Len(blockchain.audit_log) :
        /\ blockchain.audit_log[i].action = "approve_access"
        /\ blockchain.audit_log[i].details.owner_vid = owner_vid
        /\ blockchain.audit_log[i].details.viewer_vid = viewer_vid
        /\ blockchain.audit_log[i].details.record_id = record_id

C12_Witness ==
    /\ last.op = "revoke_access"
    /\ last.err = "ok"
    /\ Approved(last.args.owner_vid, last.args.viewer_vid, last.args.record_id)
    /\ blockchain.audit_log[Len(blockchain.audit_log)].action = "revoke_access"
    /\ blockchain.audit_log[Len(blockchain.audit_log) - 1].action = "approve_access"
    /\ LastConsent.capsule_cid = NoneV

\* C13: revoke_access on a consent entry whose status is requested fails and leaves
\* the entry requested, so that revoked is reached from approved only.
C13_RevokeBeforeApprove ==
    [][(/\ last'.op = "revoke_access"
        /\ CalledKey \in DOMAIN blockchain.consents
        /\ blockchain.consents[CalledKey].status = "requested")
          => (/\ last'.err # "ok"
              /\ blockchain'.consents[CalledKey] = blockchain.consents[CalledKey])]_vars

\* The state of the consent registry satisfies the precondition of the call
Precondition(op, consents, key) ==
    CASE op = "request_access" -> key \notin DOMAIN consents
      [] op = "approve_access" ->
            key \in DOMAIN consents /\ consents[key].status \in {"requested", "approved"}
      [] op = "revoke_access" -> key \in DOMAIN consents

\* C14: a request_access, approve_access or revoke_access call made in a state that
\* does not satisfy its precondition (request on an occupied triple, approve on a
\* missing or revoked entry, revoke on a missing entry) fails and changes neither
\* the consent entries nor the audit log.
C14_FailedTransitionNoEffect ==
    [][(/\ last'.op \in {"request_access", "approve_access", "revoke_access"}
        /\ ~Precondition(last'.op, blockchain.consents, CalledKey))
          => (/\ last'.err # "ok"
              /\ blockchain'.consents = blockchain.consents
              /\ blockchain'.audit_log = blockchain.audit_log)]_vars

----------------------------------------------------------------------------
(* Claims about the identity and record registries, checked under SpecRegistry *)

\* C15: register_user with an id that is already registered fails and leaves the
\* principal's role, public key and registered_at and the audit log unchanged; with
\* an id not yet present it inserts the principal and appends one audit entry.
C15_RegisterUser ==
    [][last'.op = "register_user" =>
          LET a == last'.args
          IN IF a.user_id \in DOMAIN blockchain.users
             THEN /\ last'.err = "UserAlreadyRegistered"
                  /\ blockchain'.users[a.user_id] = blockchain.users[a.user_id]
                  /\ blockchain'.audit_log = blockchain.audit_log
             ELSE /\ last'.err = "ok"
                  /\ a.user_id \in DOMAIN blockchain'.users
                  /\ blockchain'.users[a.user_id].user_id = a.user_id
                  /\ blockchain'.users[a.user_id].role = a.role
                  /\ blockchain'.users[a.user_id].public_key = a.public_key
                  /\ Len(blockchain'.audit_log) = Len(blockchain.audit_log) + 1
                  /\ SubSeq(blockchain'.audit_log, 1, Len(blockchain.audit_log))
                        = blockchain.audit_log
                  /\ blockchain'.audit_log[Len(blockchain'.audit_log)].action = "registration"]_vars

C15_Witness ==
    /\ last.op = "register_user"
    /\ last.err = "UserAlreadyRegistered"
    /\ last.args.user_id = "p"
    /\ blockchain.users["p"].role # last.args.role
    /\ blockchain.users["p"].public_key # last.args.public_key

\* C16: register_user(a) succeeds exactly when a itself is not registered, whatever
\* other ids are registered, and it leaves the entry of every other principal as
\* it was.
C16_DistinctIdsIndependent ==
    [][last'.op = "register_user" =>
          LET a == last'.args.user_id
          IN /\ last'.err = "ok" <=> a \notin DOMAIN blockchain.users
             /\ DOMAIN blockchain'.users \ {a} = DOMAIN blockchain.users \ {a}
             /\ \A b \in DOMAIN blockchain.users \ {a} :
                   blockchain'.users[b] = blockchain.users[b]]_vars

C16_Witness ==
    /\ last.op = "register_user"
    /\ last.err = "ok"
    /\ last.args.user_id = "v"
    /\ "p" \in DOMAIN blockchain.users
    /\ blockchain.users["p"].registered_at < blockchain.users["v"].registered_at

C18_RecordOwnerRegistered ==
    \A r \in DOMAIN blockchain.records :
        /\ blockchain.records[r].owner_vid \in DOMAIN blockchain.users
        /\ blockchain.users[blockchain.records[r].owner_vid].role = "Patient"

----------------------------------------------------------------------------
(* Claims about the consent keys and the audit log *)

\* C19: two different triples never share a consent entry: the entry that
\* get_consent returns for a triple was created for that triple, so that no call on
\* one triple reads, blocks or changes the consent of another triple, also when
\* the ids contain ':'.
C19_ConsentUniquePerTriple ==
    \A t \in KeyTriples :
        LET consent == get_consent(blockchain, t[1], t[2], t[3])
        IN consent # NoneV =>
              /\ consent.owner_vid = t[1]
              /\ consent.viewer_vid = t[2]
              /\ consent.record_id = t[3]

\* The calls that change the state of the registries when they succeed
StateChanging ==
    {"register_user", "store_record", "request_access", "approve_access", "revoke_access"}

\* C20: every successful register_user, store_record, request_access,
\* approve_access and revoke_access appends exactly one entry to the audit log and
\* every failed call appends none.
C20_AuditCount ==
    [][last'.op \in StateChanging =>
          IF last'.err = "ok"
          THEN /\ Len(blockchain'.audit_log) = Len(blockchain.audit_log) + 1
               /\ SubSeq(blockchain'.audit_log, 1, Len(blockchain.audit_log))
                     = blockchain.audit_log
          ELSE blockchain'.audit_log = blockchain.audit_log]_vars

C20_Witness ==
    /\ last.op = "revoke_access"
    /\ last.err = "ConsentNotFound"
    /\ Len(blockchain.audit_log) = 5
    /\ {blockchain.audit_log[i].action : i \in 1..5} =
          {"registration", "store_record", "request_access", "approve_access", "revoke_access"}

----------------------------------------------------------------------------
(* Claims about what leaves the orchestrator, checked under Spec *)

\* The bytes are, or carry, a secret key
CarriesSecret(b) ==
    \/ b.kind \in {"SecretKey", "secret_key_bytes"}
    \/ /\ b.kind = "cfrag_bytes"
       /\ {b.delegating.kind, b.signer.kind, b.receiving.kind} # {"PublicKey"}
    \/ /\ b.kind = "ciphertext"
       /\ b.data.kind \in {"SecretKey", "secret_key_bytes"}

\* The locator or hash was computed from bytes that carry a secret key
RefersToSecret(ref) == ref # NoneV /\ CarriesSecret(ref.of)

\* The bytes handed to IPFSManager.upload by the last call
LastUploads == {last.calls[i].data : i \in CallsNamed("ipfs.upload")}

C22_NoPlaintextUpload ==
    /\ \A c \in DOMAIN ipfs : c.of.kind \in {"ciphertext", "cfrag_bytes"}
    /\ \A b \in LastUploads : b.kind \in {"ciphertext", "cfrag_bytes"}

\* C26: for every registered principal the public key in the identity registry is
\* the public key in the key store, and the secret key in the key store is the one
\* of that public key, also after a phase1_user_registration that was rejected.
C26_KeypairOncePerPrincipal ==
    \A u \in DOMAIN blockchain.users :
        /\ u \in DOMAIN keys_dir
        /\ keys_dir[u].public_key = blockchain.users[u].public_key
        /\ public_key(SecretKey_from_bytes(keys_dir[u].private_key))
              = PublicKey_from_bytes(blockchain.users[u].public_key)

\* C27: phase6_consent_approval_pre called for a triple without a consent entry
\* fails without generating a re-encryption fragment and without uploading
\* anything to the content store.
C27_ApprovalOutOfOrder ==
    (/\ last.op = "phase6_consent_approval_pre"
     /\ LastConsent = NoneV)
        => (/\ last.err # "ok"
            /\ CallsNamed("generate_reencryption_key") = {}
            /\ CallsNamed("reencrypt") = {}
            /\ CallsNamed("ipfs.upload") = {})

\* C28: after phase6_consent_approval_pre has succeeded the consent is approved,
\* its fragment locator is the locator that the upload of the fragment returned,
\* its fragment hash is the hash of the uploaded fragment bytes, and the store
\* holds those bytes under that locator.
C28_Phase6Result ==
    (last.op = "phase6_consent_approval_pre" /\ last.err = "ok") =>
        /\ LastConsent # NoneV
        /\ LastConsent.status = "approved"
        /\ Cardinality(LastUploads) = 1
        /\ \A b \in LastUploads :
              /\ b.kind = "cfrag_bytes"
              /\ LastConsent.capsule_cid = ipfs_upload(EmptyMap, b, 1).cid
              /\ LastConsent.capsule_cid.of = b
              /\ LastConsent.capsule_hash # NoneV
              /\ LastConsent.capsule_hash.kind = "sha256"
              /\ LastConsent.capsule_hash.of = b
              /\ ipfs_download(ipfs, LastConsent.capsule_cid) = [err |-> "ok", data |-> b]
        /\ last.ret.capsule_cid = LastConsent.capsule_cid
        /\ last.ret.capsule_hash = LastConsent.capsule_hash

C28_Witness ==
    /\ last.op = "phase6_consent_approval_pre"
    /\ last.err = "ok"
    /\ last.args.original_capsule \in HeldCapsules
    /\ blockchain.audit_log[Len(blockchain.audit_log) - 1].action = "request_access"

\* C29: a consent entry has a fragment locator and a fragment hash exactly when
\* its status is approved; a requested or revoked entry has both fields empty.
C29_LocatorIffApproved ==
    \A k \in DOMAIN blockchain.consents :
        LET consent == blockchain.consents[k]
        IN IF consent.status = "approved"
           THEN consent.capsule_cid # NoneV /\ consent.capsule_hash # NoneV
           ELSE consent.capsule_cid = NoneV /\ consent.capsule_hash = NoneV

C29_Witness ==
    /\ last.op = "phase8_access_revocation"
    /\ last.err = "ok"
    /\ Approved("p", "v", "r")
    /\ LastConsent.status = "revoked"
    /\ \E c \in DOMAIN ipfs : ipfs[c].kind = "cfrag_bytes"

\* The approve_access entries of the audit log for the triple of the last call
LastApprovals ==
    {i \in 1..Len(blockchain.audit_log) :
        /\ blockchain.audit_log[i].action = "approve_access"
        /\ blockchain.audit_log[i].details.owner_vid = last.args.owner_vid
        /\ blockchain.audit_log[i].details.viewer_vid = last.args.viewer_vid
        /\ blockchain.audit_log[i].details.record_id = last.args.record_id}

\* C30: approve_access on a consent that is already approved succeeds, keeps the
\* status approved and replaces the fragment locator and hash with the pair it is
\* given, and a retrieval that follows accepts only a downloaded fragment whose
\* hash is the one recorded last.
C30_ReapprovalTolerated ==
    [][/\ (/\ last'.op = "phase6_consent_approval_pre"
           /\ CalledKey \in DOMAIN blockchain.consents
           /\ blockchain.consents[CalledKey].status = "approved"
           /\ \E i \in 1..Len(last'.calls) :
                 last'.calls[i].fn = "ipfs.upload" /\ last'.calls[i].err = "ok")
             => (/\ last'.err = "ok"
                 /\ blockchain'.consents[CalledKey].status = "approved"
                 /\ \A i \in 1..Len(last'.calls) :
                       last'.calls[i].fn = "ipfs.upload" =>
                          /\ blockchain'.consents[CalledKey].capsule_cid.of = last'.calls[i].data
                          /\ blockchain'.consents[CalledKey].capsule_hash.of = last'.calls[i].data)
       /\ (/\ last'.op = "phase7_data_retrieval_decryption"
           /\ last'.err = "ok")
             => (/\ last'.calls[2].cid = blockchain.consents[CalledKey].capsule_cid
                 /\ blockchain.consents[CalledKey].capsule_hash.of = last'.calls[2].data)]_vars

C30_Witness ==
    /\ IsPhase7
    /\ last.err = "ok"
    /\ Cardinality(LastApprovals) = 2
    /\ Cardinality({blockchain.audit_log[i].details.capsule_cid : i \in LastApprovals}) = 2

----------------------------------------------------------------------------
(* Claims about concurrent callers, checked under SpecRace *)

\* The callers whose call of op with these arguments has returned normally
Succeeded(op) ==
    {t \in Threads : threads[t].op = op /\ threads[t].pc = "done" /\ threads[t].err = "ok"}

SameTriple(a, b) ==
    /\ a.owner_vid = b.owner_vid
    /\ a.viewer_vid = b.viewer_vid
    /\ a.record_id = b.record_id

\* C23: of the request_access calls that race on one triple exactly one succeeds
\* and the others fail with the already-exists error: no two callers both succeed.
C23_RequestRaceSerialized ==
    \A t1, t2 \in Succeeded("request_access") :
        SameTriple(threads[t1].args, threads[t2].args) => t1 = t2

\* C24: of the register_user calls that race on one id, and of the store_record
\* calls that race on one record_id, exactly one succeeds and the stored entry is
\* the one of the caller that succeeded.
C24_InsertIfAbsentAtomic ==
    /\ \A t1, t2 \in Succeeded("register_user") :
          threads[t1].args.user_id = threads[t2].args.user_id => t1 = t2
    /\ \A t1, t2 \in Succeeded("store_record") :
          threads[t1].args.record_id = threads[t2].args.record_id => t1 = t2
    /\ \A t \in Succeeded("register_user") :
          blockchain.users[threads[t].args.user_id].role = threads[t].args.role
    /\ \A t \in Succeeded("store_record") :
          blockchain.records[threads[t].args.record_id].owner_vid = threads[t].args.owner_vid

\* C25: a phase7_data_retrieval_decryption call during which revoke_access has
\* completed for its triple, after its consent check and before its decryption
\* step, does not decrypt the plaintext.
C25_NoDecryptUnderRevoked ==
    \A t \in Threads :
        (/\ threads[t].op = "phase7_data_retrieval_decryption"
         /\ threads[t].pc = "done"
         /\ "status_at_decrypt" \in DOMAIN threads[t].local
         /\ threads[t].local.status_at_decrypt = "revoked")
            => threads[t].plaintext = NoneV


----------------------------------------------------------------------------
(* The capsule the simulator retains *)

\* The phase2 results whose ciphertext hash is bound in the record record_id
EncryptionsOf(record_id) ==
    {i \in 1..Len(issued) : issued[i].cipher_hash = blockchain.records[record_id].hash}

\* C31: for every record_id in the record registry, capsule_storage[record_id]
\* exists and is the capsule of the encryption whose ciphertext hash the record
\* binds, whatever phase2_data_encryption calls were made (repeated for one
\* record_id, or without a record_id).
C31_RetainedCapsuleMatchesRecord ==
    \A record_id \in DOMAIN blockchain.records :
        /\ record_id \in DOMAIN capsule_storage
        /\ \E i \in EncryptionsOf(record_id) : issued[i].capsule = capsule_storage[record_id]

----------------------------------------------------------------------------
(* The content store does not answer *)

\* The IPFSManager.upload calls of call c that raised
UploadsFailed(c) ==
    {i \in 1..Len(c.calls) : c.calls[i].fn = "ipfs.upload" /\ c.calls[i].err # "ok"}

\* C32: when the upload of the fragment fails in phase6_consent_approval_pre,
\* the call raises that failure and approve_access is not called: users, records,
\* consents and the audit log stay as they were, so every approved consent names
\* a fragment that the content store holds.
C32_UploadFailurePropagates ==
    [][/\ (last'.op = "phase6_consent_approval_pre" /\ UploadsFailed(last') # {})
            => (last'.err = "Unavailable" /\ blockchain' = blockchain /\ ipfs' = ipfs)
       /\ \A k \in DOMAIN blockchain'.consents :
             blockchain'.consents[k].status = "approved"
                => blockchain'.consents[k].capsule_cid \in DOMAIN ipfs']_vars

\* A phase 6 whose upload failed while the consent was waiting for approval
C32_Witness ==
    /\ last.op = "phase6_consent_approval_pre"
    /\ UploadsFailed(last) # {}
    /\ LastConsent # NoneV
    /\ LastConsent.status = "requested"

\* The original capsules the simulator or its caller holds
OriginalCapsules == Range(capsule_storage) \cup HeldCapsules

\* C33: the original capsule is never persisted to the content store: every
\* upload of the simulator carries plaintext, ciphertext or a re-encrypted
\* fragment, never the capsule bytes held in capsule_storage.
C33_CapsuleNeverUploaded ==
    /\ \A b \in LastUploads :
          /\ b.kind \in {"raw", "ciphertext", "cfrag_bytes"}
          /\ b \notin OriginalCapsules
    /\ \A c \in DOMAIN ipfs :
          /\ ipfs[c].kind \in {"raw", "ciphertext", "cfrag_bytes"}
          /\ ipfs[c] \notin OriginalCapsules

\* A phase 6 that uploaded the fragment of a capsule retained in capsule_storage
C33_Witness ==
    /\ last.op = "phase6_consent_approval_pre"
    /\ last.err = "ok"
    /\ capsule_storage # EmptyMap
    /\ \E b \in LastUploads :
          b.kind = "cfrag_bytes" /\ capsule_to_bytes(b.capsule) \in Range(capsule_storage)

----------------------------------------------------------------------------
(* The audit log over the life of a MockBlockchain *)

IsPrefix(s, t) == Len(s) <= Len(t) /\ SubSeq(t, 1, Len(s)) = s

\* C34: the audit log is append-only over the whole life of a MockBlockchain:
\* no public operation removes or alters an entry, so the log of every earlier
\* state is a prefix of the log of every later state.
C34_AuditAppendOnly ==
    [][IsPrefix(blockchain.audit_log, blockchain'.audit_log)]_vars

----------------------------------------------------------------------------
(* What a retrieval returns, and what it writes *)

\* C36: the result of a successful phase7_data_retrieval_decryption carries the
\* decrypted plaintext, as its docstring states, so that the caller can compare
\* it with the original payload.
C36_ResultCarriesPlaintext ==
    (IsPhase7 /\ last.err = "ok")
        => ("plaintext" \in DOMAIN last.ret /\ last.ret.plaintext = last.plaintext)

----------------------------------------------------------------------------
(* What a consent entry refers to *)

\* C37: a consent entry for (owner, viewer, record) exists only if the record
\* is in the record registry with that owner as its owner and both owner and
\* viewer are registered principals.
C37_ConsentReferentiallySound ==
    \A k \in DOMAIN blockchain.consents :
        LET consent == blockchain.consents[k]
        IN /\ consent.record_id \in DOMAIN blockchain.records
           /\ blockchain.records[consent.record_id].owner_vid = consent.owner_vid
           /\ consent.owner_vid \in DOMAIN blockchain.users
           /\ consent.viewer_vid \in DOMAIN blockchain.users

----------------------------------------------------------------------------
(* Revoking twice *)

\* C39: revoke_access on an entry that is already revoked succeeds and leaves
\* it revoked with no fragment locator and no fragment hash; apart from the
\* entry's updated_at and one more audit entry nothing changes.
C39_RevokeIdempotent ==
    [][(/\ last'.op = "revoke_access"
        /\ CalledKey \in DOMAIN blockchain.consents
        /\ blockchain.consents[CalledKey].status = "revoked")
          => (/\ last'.err = "ok"
              /\ blockchain'.consents[CalledKey].status = "revoked"
              /\ blockchain'.consents[CalledKey].capsule_cid = NoneV
              /\ blockchain'.consents[CalledKey].capsule_hash = NoneV
              /\ blockchain'.consents =
                    [blockchain.consents EXCEPT
                        ![CalledKey].updated_at = blockchain'.consents[CalledKey].updated_at]
              /\ blockchain'.users = blockchain.users
              /\ blockchain'.records = blockchain.records
              /\ Len(blockchain'.audit_log) = Len(blockchain.audit_log) + 1
              /\ IsPrefix(blockchain.audit_log, blockchain'.audit_log))]_vars

\* The last two audit entries are revocations of one triple
C39_Witness ==
    /\ last.op = "revoke_access"
    /\ last.err = "ok"
    /\ Len(blockchain.audit_log) >= 2
    /\ blockchain.audit_log[Len(blockchain.audit_log)].action = "revoke_access"
    /\ blockchain.audit_log[Len(blockchain.audit_log) - 1].action = "revoke_access"
    /\ blockchain.audit_log[Len(blockchain.audit_log)].details =
          blockchain.audit_log[Len(blockchain.audit_log) - 1].details

----------------------------------------------------------------------------
(* What a retrieval writes *)

\* C38: phase7_data_retrieval_decryption, whether it succeeds or fails, leaves
\* users, records, consents, the audit log and capsule_storage unchanged.
C38_RetrievalReadOnly ==
    [][last'.op = "phase7_data_retrieval_decryption"
          => (blockchain' = blockchain /\ capsule_storage' = capsule_storage)]_vars

\* A retrieval that decrypted, with registries and a capsule store to leave alone
C38_Witness ==
    /\ IsPhase7
    /\ last.err = "ok"
    /\ last.plaintext = Hello
    /\ blockchain.audit_log # <<>>
    /\ capsule_storage # EmptyMap

----------------------------------------------------------------------------
(* The order of a full run *)

\* The positions of run_full_simulation and the phase called at each
RunOrder ==
    <<"phase1_patient", "phase1_doctor", "phase1_viewer", "phase2", "phase3", "phase4",
      "phase5", "phase6", "phase7", "phase8", "returned">>
PhaseAt ==
    <<"phase1_user_registration", "phase1_user_registration", "phase1_user_registration",
      "phase2_data_encryption", "phase3_ipfs_storage", "phase4_onchain_storage",
      "phase5_access_request", "phase6_consent_approval_pre",
      "phase7_data_retrieval_decryption", "phase8_access_revocation">>

\* A phase is called only at its position, right after its predecessor returned
\* normally; the run then moves on, or stops with the exception of the phase
InOrder ==
    last'.op # "run_full_simulation" =>
        \E k \in 1..10 :
            /\ run.pc = RunOrder[k]
            /\ last'.op = PhaseAt[k]
            /\ last.err = "ok"
            /\ last.op = IF k = 1 THEN "run_full_simulation" ELSE PhaseAt[k - 1]
            /\ run'.pc = IF last'.err = "ok" THEN RunOrder[k + 1] ELSE "raised"

\* The consent of the run's (patient, viewer, record) is revoked
RunRevoked ==
    LET consent == get_consent(blockchain, run.patient_id, run.viewer_id, run.record_id)
    IN consent # NoneV /\ consent.status = "revoked"

\* C35: run_full_simulation runs the phases strictly in the order register,
\* encrypt, upload, store record, request, approve, retrieve, revoke; a phase
\* starts only after the previous one succeeded; when a phase raises no later
\* phase runs and the exception reaches the caller. A first run on fresh ids
\* with a content store that answers terminates, with the consent revoked.
C35_RunInOrder ==
    /\ [][InOrder]_vars
    /\ [](run.pc = "returned" => RunRevoked)
    /\ []((run.pc = "raised" /\ run.count = 1) => last.err = "Unavailable")
    /\ (run.pc = "phase1_patient") ~> (run.pc \in {"returned", "raised"})

\* A first run that returned after its retrieval decrypted the payload
C35_Witness ==
    /\ run.pc = "returned"
    /\ run.count = 1
    /\ last.op = "phase8_access_revocation"
    /\ RunRevoked

=============================================================================
